---- MODULE Spec2Model ----
(***************************************************************************)
(* Model of js/chat-controller.js (ChatController): the tool-call          *)
(* orchestration state machine.                                            *)
(*                                                                         *)
(* JavaScript runs each async chain to completion between awaits of an     *)
(* external promise (a model request or a tool request).  A chain is a     *)
(* task with a stack of frames; `running` names the task that holds the    *)
(* JavaScript thread (0: the event loop is idle).  UI events and external  *)
(* responses are taken only when the event loop is idle.                   *)
(***************************************************************************)
EXTENDS Integers, Sequences, FiniteSets, TLC

-----------------------------------------------------------------------------
(* Bounds of the model *)

\* async chains that may be suspended at the same time
MaxTasks == 2
\* tool calls the environment issues in a run of repeated calls
MaxRepeatCalls == 4
\* tool calls the environment issues in a run of concurrent chains
MaxConcurrentCalls == 1
\* user operations (init, sendMessage, clearChat, updateSettings) in a run
\* of user operations
MaxUserOps == 3
\* messages the user sends in a run of replies
MaxMessages == 1
\* rounds of summarizeSnippets in which the model writes long summaries
MaxLongRounds == 2
\* snippets in a list given to splitIntoBatches, and the length of each
MaxSnippets == 3
MaxSnippetLength == 3
\* calls of deepReadUrl in a run of deep reads, and the largest maxChunks
\* among the small ones they are given
MaxDeepReads == 2
MaxSmallChunks == 1
\* searches issued in a run of the profile "overlaps"
MaxSearches == 2
\* clicks and messages of the user in a run of the profile "clicks"
MaxClicks == 2

-----------------------------------------------------------------------------
(* Program constants *)

MAX_TOOL_CALL_REPEAT == 3
DEFAULT_READ_LENGTH == 1122
\* deepReadUrl(url, 5, 2000) with maxTotalLength = 10000
DEEP_MAX_CHUNKS == 5
DEEP_CHUNK_SIZE == 2000
DEEP_MAX_TOTAL_LENGTH == 10000
MAX_PROMPT_LENGTH == 5857
\* '\n---\n'.length
SEPARATOR_LENGTH == 5
\* '...'.length
ELLIPSIS_LENGTH == 3
\* the length of a page that deepReadUrl reads in four chunks
LONG_PAGE == 7000
\* the length of a page that ends within its second chunk
SHORT_PAGE == 3000
\* two summaries of this length fit into MAX_PROMPT_LENGTH, but not when
\* joined with the separator
HALF_PROMPT_LENGTH == 2927

-----------------------------------------------------------------------------
(* Values of tool-call arguments.                                          *)
(* A string-valued argument is a token; "UNDEF" is a missing property and  *)
(* "NONSTR" a truthy value that is not a string.  A number-valued argument *)
(* is a record: t is "undef", "str" or "num"; a number is v + half/2.      *)

Undef == [t |-> "undef", v |-> 0, half |-> 0]
Num(n) == [t |-> "num", v |-> n, half |-> 0]

NoArgs == [query |-> "UNDEF", url |-> "UNDEF", start |-> Undef, length |-> Undef]

\* let lastToolCall = null
NullCall == [tool |-> "null", args |-> NoArgs]

QueryCall(tool, q) == [tool |-> tool, arguments |-> [NoArgs EXCEPT !.query = q]]
ReadCall(u, s, l) ==
    [tool |-> "read_url", arguments |-> [NoArgs EXCEPT !.url = u, !.start = s, !.length = l]]

\* !x for a string-or-missing value
Falsy(s) == s \in {"UNDEF", ""}
\* typeof x === 'string'
IsString(s) == s \notin {"UNDEF", "NONSTR"}
\* x.trim(): " " is the one token made of white space only
Trim(s) == IF s = " " THEN "" ELSE s
\* /^https?:\/\//.test(x)
MatchesHttp(s) == s \in {"http://a", "https://b"}

\* values of the number arguments: missing, a string, -1, 0, 0.5, 400, 2000
StartValues ==
    { Undef, [t |-> "str", v |-> 0, half |-> 0], Num(-1), Num(0),
      [t |-> "num", v |-> 0, half |-> 1], Num(400), Num(2000) }
LengthValues ==
    { Undef, [t |-> "str", v |-> 0, half |-> 0], Num(-1), Num(0),
      [t |-> "num", v |-> 0, half |-> 1], Num(600), Num(DEFAULT_READ_LENGTH) }

\* The environment of a run is one of these profiles.  A profile fixes the
\* calls the environment issues (model replies, public API, clicks), how
\* many of them, how many chains at a time, how many user operations, and
\* the lengths of the pages ToolsService.readUrl returns.
\*   "repeat":     few signatures, many calls, one chain at a time
\*   "shapes":     one call of any argument shape
\*   "operations": user operations around one call
\*   "concurrent": chains started while another is suspended
\*   "replies":    messages of the user and replies of any shape, with and
\*                 without chain of thought
\*   "summaries":  one search whose results are read in several chunks and
\*                 summarized in batches and rounds
\*   "functions":  no operation of the controller; splitIntoBatches is
\*                 applied to a list of snippets and a budget
\*   "deepreads":  deepReadUrl with any of a few maxChunks, chunkSize and
\*                 maxTotalLength, on pages of several lengths
\*   "clicks":     a search whose results are read automatically, while the
\*                 user sends a message or clicks 'read more' or the
\*                 summarize button; no request fails
\*   "overlaps":   searches started while another is suspended, each with
\*                 results that are read automatically; no request fails
\*   "searches":   one message; the model answers it, and every
\*                 continuation, with the same search, whose results, one
\*                 of them not an http url, are read automatically; no
\*                 request fails
\*   "resets":     calls from outside and in replies of the model, between
\*                 them a message, clearChat and init, once each; no
\*                 request fails
Profiles ==
    { "repeat", "shapes", "operations", "concurrent", "replies", "summaries",
      "functions", "deepreads", "clicks", "overlaps", "searches", "resets" }

ReadA == ReadCall("http://a", Num(0), Num(DEFAULT_READ_LENGTH))

ShapeCalls ==
    { QueryCall(tool, q) : tool \in {"web_search", "instant_answer"},
                           q \in {"UNDEF", "NONSTR", "", " ", "cats"} }
      \cup { ReadCall(u, Undef, Undef) : u \in {"UNDEF", "NONSTR", "", "ftp://c", "https://b"} }
      \cup { ReadCall("http://a", st, ln) : st \in StartValues, ln \in LengthValues }

CallsOf(p) ==
    CASE p = "repeat" -> { ReadA, QueryCall("instant_answer", "cats"),
                            QueryCall("instant_answer", " ") }
      [] p = "shapes" -> ShapeCalls
      [] p = "operations" -> { ReadA, QueryCall("web_search", " ") }
      [] p = "concurrent" -> { ReadA }
      [] p = "replies" -> { ReadA, QueryCall("calculator", "cats") }
      [] p \in {"summaries", "clicks", "overlaps", "searches"} ->
           { QueryCall("web_search", "cats") }
      [] p = "resets" -> { QueryCall("instant_answer", "cats") }
      [] p \in {"functions", "deepreads"} -> {}

MaxCallsOf(p) ==
    CASE p = "repeat" -> MaxRepeatCalls
      [] p = "shapes" -> 1
      [] p = "operations" -> 1
      [] p = "concurrent" -> MaxConcurrentCalls
      [] p = "replies" -> 1
      [] p = "summaries" -> 1
      [] p = "clicks" -> 1
      [] p = "overlaps" -> MaxSearches
      [] p \in {"searches", "resets"} -> MaxRepeatCalls
      [] p \in {"functions", "deepreads"} -> 0

MaxTasksOf(p) ==
    CASE p \in {"concurrent", "overlaps"} -> MaxTasks
      [] p = "clicks" -> 2
      [] OTHER -> 1

MaxUserOpsOf(p) ==
    CASE p = "repeat" -> 0
      [] p = "shapes" -> 1
      [] p = "operations" -> MaxUserOps
      [] p = "concurrent" -> 1
      [] p = "replies" -> MaxMessages
      [] p = "clicks" -> MaxClicks
      [] p = "searches" -> 1
      [] p = "resets" -> 3
      [] p \in {"summaries", "functions", "deepreads", "overlaps"} -> 0

\* the user operations of a run
UserOpsOf(p) ==
    CASE p \in {"replies", "shapes", "searches"} -> { "sendMessage" }
      [] p = "clicks" -> { "sendMessage", "clickReadMore", "clickSummarize" }
      [] p = "resets" -> { "init", "clearChat", "sendMessage" }
      [] OTHER -> { "init", "updateSettings", "clearChat", "sendMessage" }

\* the requests that may fail in a run: to ToolsService, to the model for
\* the conversation, a suggestion, a judgment or a summary
FailuresOf(p) ==
    IF p \in {"clicks", "overlaps", "searches", "resets"} THEN {}
    ELSE { "tool", "model", "suggestion", "judgment", "summary" }

\* skipContinue of the calls made from outside
SkipsOf(p) ==
    CASE p \in {"repeat", "shapes"} -> BOOLEAN
      [] p \in {"summaries", "clicks", "overlaps", "resets"} -> {TRUE}
      [] p = "searches" -> {}
      [] OTHER -> {FALSE}

\* the model selected in the settings, which no operation changes: where
\* only calls are made from outside, or no call at all, one model
ModelsOf(p) ==
    IF p \in {"repeat", "shapes", "functions"} THEN {"gpt-4"}
    ELSE {"gpt-4", "gemini-pro"}

PagesOf(p) ==
    CASE p = "shapes" -> {1000, 1122, 1123, 1500}
      [] p = "summaries" -> {LONG_PAGE}
      [] p = "deepreads" -> {SHORT_PAGE, DEEP_MAX_TOTAL_LENGTH}
      [] OTHER -> {1500}

-----------------------------------------------------------------------------
(* Conversation turns.  The content of a turn is a record with a kind.     *)

SystemTurn == [role |-> "system", content |-> [kind |-> "toolInstructions"]]
UserTurn(text, cot) ==
    [role |-> "user", content |-> [kind |-> "message", text |-> text, cot |-> cot]]
ReplyTurn(text) == [role |-> "assistant", content |-> [kind |-> "reply", text |-> text]]
SearchTurn(q, n) ==
    [role |-> "assistant", content |-> [kind |-> "searchResults", query |-> q, n |-> n]]
\* `Read content from ${url}:\n${snippet}${hasMore ? '...' : ''}`; the snippet is
\* the text of the page at url from offset from, len characters long
ReadTurn(u, from, len, more) ==
    [role |-> "assistant",
     content |-> [kind |-> "readContent", url |-> u, from |-> from, len |-> len,
                  more |-> more]]

\* a text: len characters of the page at url from offset from, followed by
\* '...' when dots; a summary written by the model has url "summary"
Text(u, from, len, dots) == [url |-> u, from |-> from, len |-> len, dots |-> dots]
EmptyText == Text("", 0, 0, FALSE)
TextLength(x) == x.len + (IF x.dots THEN ELLIPSIS_LENGTH ELSE 0)
AnswerTurn(json) ==
    [role |-> "assistant", content |-> [kind |-> "instantAnswer", json |-> json]]
\* `${ToolName} failed: ${err.message}`
FailedTurn(name) ==
    [role |-> "assistant", content |-> [kind |-> "failed", name |-> name]]

\* variant: the failure turn carries the tool's identifier
ToolName_Identifier(tool) == tool

ToolName(tool) ==
    CASE tool = "web_search" -> "Web search"
      [] tool = "read_url" -> "Read URL"
      [] tool = "instant_answer" -> "Instant answer"

\* JSON.parse(content) succeeds and has truthy tool and arguments
ParsesAsToolCall(content) ==
    \/ content.kind = "instantAnswer" /\ content.json = "toolShaped"
    \/ content.kind = "message" /\ content.text = "toolShaped" /\ ~content.cot
    \/ content.kind = "reply" /\ content.text = "toolShaped"

-----------------------------------------------------------------------------
VARIABLES
    chatHistory,        \* let chatHistory
    settings,           \* let settings
    lastToolCall,       \* let lastToolCall (signature of the last call)
    lastToolCallCount,  \* let lastToolCallCount
    toolCallHistory,    \* let toolCallHistory (audit log, timestamps left out)
    readSnippets,       \* let readSnippets
    lastSearchResults,  \* let lastSearchResults (urls of the results)
    autoReadInProgress, \* let autoReadInProgress
    readCache,          \* const readCache, a set of [key, snippet]
    selectedModel,      \* SettingsController.getSettings().selectedModel
    tasks,              \* the suspended or running async chains
    running,            \* the task holding the JavaScript thread, 0 if none
    profile,            \* the environment of the run
    lastThinkingContent, \* let lastThinkingContent
    lastAnswerContent,  \* let lastAnswerContent
    probe,              \* the last application of a pure function to inputs
    calls,              \* history: one entry per processToolCall invocation
    exchanges,          \* history of the profile "replies": sendMessage calls and
                        \* replies of the model, in order
    sums,               \* history: one entry per summarizeSnippets invocation
    reads,              \* history: one entry per deepReadUrl invocation
    autos,              \* history of the profile "overlaps": one entry per
                        \* autoReadAndSummarizeFromSuggestion invocation
    ops,                \* history of the profile "resets": one entry per init,
                        \* clearChat and sendMessage
    ui,                 \* UIController: spinner, status line, buttons shown
    nUserOps            \* history: user operations so far

vars == <<chatHistory, settings, lastToolCall, lastToolCallCount, toolCallHistory,
          readSnippets, lastSearchResults, autoReadInProgress, readCache,
          selectedModel, tasks, running, profile, lastThinkingContent,
          lastAnswerContent, probe, calls, exchanges, sums, reads, autos, ops,
          ui, nUserOps>>

\* what no operation of the controller changes
envVars == <<selectedModel, profile, probe>>
\* the state of chain-of-thought processing, and the history of replies
cotVars == <<lastThinkingContent, lastAnswerContent, exchanges>>
\* the loop guard and the audit log
guardVars == <<lastToolCall, lastToolCallCount, toolCallHistory>>
\* the state of reading and summarizing
readVars == <<readSnippets, lastSearchResults, autoReadInProgress, readCache>>

\* UIController at the start: no spinner, no status line, no 'read more'
\* callback of a search result, no summarize button
NoIndicators ==
    [spinner |-> FALSE, status |-> FALSE, readMore |-> {}, summarizeButton |-> FALSE]

\* no pure function has been applied
NoProbe == [fn |-> "none"]

\* lists of at most n snippets, the i-th one being the text at offset i of a
\* page, of any length up to MaxSnippetLength
RECURSIVE SnippetLists(_)
SnippetLists(n) ==
    IF n = 0 THEN { <<>> }
    ELSE LET shorter == SnippetLists(n - 1) IN
         shorter \cup { Append(l, Text("http://a", n, len, FALSE)) :
                           l \in { k \in shorter : Len(k) = n - 1 },
                           len \in 0..MaxSnippetLength }

\* the arguments of splitIntoBatches(snippets, maxLen) in the profile
\* "functions"
ProbesOf(p) ==
    IF p = "functions"
    THEN { [fn |-> "splitIntoBatches", snippets |-> l, maxLen |-> m,
            applied |-> FALSE, batches |-> <<>>] :
              l \in SnippetLists(MaxSnippets), m \in 0..(MaxSnippetLength + 1) }
    ELSE { NoProbe }

\* the history of messages and replies is kept in the profile "replies"
Logged(log, e) == IF profile = "replies" THEN Append(log, e) ELSE log

TaskIds == 1..MaxTasks
IdleTask == [stack |-> <<>>, ret |-> "none"]

Top(stack) == stack[Len(stack)]
Pop(stack) == SubSeq(stack, 1, Len(stack) - 1)
SetTop(stack, f) == [stack EXCEPT ![Len(stack)] = f]

\* selectedModel.startsWith('gpt')
IsGpt(m) == m = "gpt-4"

\* the task t holds the thread and its top frame is in function fn at pc
At(t, fn, pc) ==
    /\ running = t
    /\ tasks[t].stack # <<>>
    /\ Top(tasks[t].stack).fn = fn
    /\ Top(tasks[t].stack).pc = pc

\* the task t is suspended on an external promise in function fn at pc
Awaits(t, fn, pc) ==
    /\ running = 0
    /\ tasks[t].stack # <<>>
    /\ Top(tasks[t].stack).fn = fn
    /\ Top(tasks[t].stack).pc = pc

\* the lowest free task slot, while the environment starts another chain
FreeTask(t) ==
    /\ tasks[t].stack = <<>>
    /\ Cardinality({ u \in TaskIds : tasks[u].stack # <<>> }) < MaxTasksOf(profile)
    /\ \A u \in TaskIds : u < t => tasks[u].stack # <<>>

\* the top frame returns (r = "ok") or throws (r = "throw") to its caller
ReturnFrom(t, r) ==
    LET rest == Pop(tasks[t].stack) IN
    /\ tasks' = [tasks EXCEPT ![t] =
                    IF rest = <<>> THEN IdleTask ELSE [stack |-> rest, ret |-> r]]
    /\ running' = IF rest = <<>> THEN 0 ELSE t

\* the top frame becomes f and calls a function whose first frame is g
CallFrom(t, f, g) ==
    /\ tasks' = [tasks EXCEPT ![t] =
                    [stack |-> Append(SetTop(tasks[t].stack, f), g), ret |-> "none"]]
    /\ running' = t

\* the top frame becomes f and suspends on an external promise
SuspendAt(t, f) ==
    /\ tasks' = [tasks EXCEPT ![t] = [stack |-> SetTop(tasks[t].stack, f), ret |-> "none"]]
    /\ running' = 0

\* the top frame becomes f and goes on running
StepTo(t, f) ==
    /\ tasks' = [tasks EXCEPT ![t] = [stack |-> SetTop(tasks[t].stack, f), ret |-> "none"]]
    /\ running' = t

-----------------------------------------------------------------------------
(* History of processToolCall invocations *)

\* call, skip: the invocation; parent: the invocation whose handler it runs
\* under (0: none); origin: its caller; raised: it has thrown; guardBefore, guardAfter: lastToolCall and lastToolCallCount
\* before and after its comparison; aborted, loopNotices: the loop-detected
\* notice; handlerRuns, toolRuns: calls of the handler and of ToolsService;
\* indicated: the handler has shown its spinner or status; handlerReturned,
\* indicatorAtReturn: the handler has returned, with the indicator shown then;
\* errorNotices: 'Error: Invalid ...' notices; threw, succeeded: how the request
\* to ToolsService ended; failTurns: '... failed' turns; turns, otherTurns:
\* assistant and other turns pushed while the handler ran, replyTurns: those
\* of them that hold a reply of the conversation model; returned: the
\* handler has returned; lastAtReturn: the last turn then; warnings: 'another
\* tool call without reasoning' notices; contRequests: requests to the model
\* that continue it; contSaw: the last assistant turn sent with them; total,
\* sliceLength, hasMore: the page read and the slice taken
NewEntry(call, skip) ==
    [call |-> call, skip |-> skip, parent |-> 0, origin |-> "outside", raised |-> FALSE,
     guardBefore |-> [last |-> NullCall, count |-> 0],
     guardAfter |-> [last |-> NullCall, count |-> 0],
     aborted |-> FALSE, loopNotices |-> 0, handlerRuns |-> 0, toolRuns |-> 0,
     indicated |-> FALSE, handlerReturned |-> FALSE, indicatorAtReturn |-> FALSE,
     errorNotices |-> 0, threw |-> FALSE, succeeded |-> FALSE, failTurns |-> 0,
     turns |-> 0, otherTurns |-> 0, replyTurns |-> 0, returned |-> FALSE,
     lastAtReturn |-> [kind |-> "none"], warnings |-> 0, contRequests |-> 0,
     contSaw |-> [kind |-> "none"], total |-> -1, sliceLength |-> -1, hasMore |-> FALSE]

\* the invocations whose handler is active in the stack
ActiveHandlers(stack) ==
    { stack[i].id : i \in { j \in DOMAIN stack : stack[j].fn = "handler" } }

Inc(log, ids, f) ==
    [i \in DOMAIN log |-> IF i \in ids THEN [log[i] EXCEPT ![f] = @ + 1] ELSE log[i]]

Put(log, id, f, x) == [log EXCEPT ![id] = [@ EXCEPT ![f] = x]]

\* the entry with some of its fields replaced
With(entry, changes) ==
    [k \in DOMAIN entry |-> IF k \in DOMAIN changes THEN changes[k] ELSE entry[k]]

\* the indicator a handler shows while its tool runs: the spinner, or for
\* instant_answer the status line
Indicator(tool) == IF tool = "instant_answer" THEN "status" ELSE "spinner"

\* variant: the indicator stays
Clear_Nothing(u, which) == u

\* UIController.showSpinner, UIController.showStatus
Show(u, which) == [u EXCEPT ![which] = TRUE]

\* UIController.hideSpinner, UIController.clearStatus
Clear(u, which) == [u EXCEPT ![which] = FALSE]

\* the handler of invocation id returns, the UIController being u
HandlerReturned(log, id, u) ==
    [log EXCEPT ![id] = With(@, [handlerReturned |-> TRUE,
                                 indicatorAtReturn |-> u[Indicator(@.call.tool)]])]

\* the innermost invocation whose handler is active in the stack, 0 if none
Enclosing(stack) ==
    LET ids == ActiveHandlers(stack) IN
    IF ids = {} THEN 0 ELSE CHOOSE i \in ids : \A j \in ids : j <= i

RECURSIVE IncBy(_, _, _, _)
IncBy(log, ids, f, n) == IF n <= 0 THEN log ELSE IncBy(Inc(log, ids, f), ids, f, n - 1)

\* the turns that task t has appended in going from history old to history
\* new, counted for the handlers it runs under
Pushed(log, t, old, new) ==
    LET added == { i \in DOMAIN new : i > Len(old) }
        assistant == Cardinality({ i \in added : new[i].role = "assistant" })
        replies == Cardinality({ i \in added : new[i].content.kind = "reply" })
        ids == ActiveHandlers(tasks[t].stack)
    IN IncBy(IncBy(IncBy(log, ids, "turns", assistant), ids, "otherTurns",
                   Cardinality(added) - assistant), ids, "replyTurns", replies)

\* variant: the turn is shown but not appended
Push_Nothing(history, turn) == history

\* chatHistory.push(turn)
Push(history, turn) == Append(history, turn)

-----------------------------------------------------------------------------
(* Inputs of the environment *)

\* settings objects passed to init and updateSettings (partial)
SettingsInputs == { [streaming |-> TRUE], [streaming |-> FALSE] }

\* the settings that init is given before a run
InitialSettingsOf(p) ==
    CASE p = "replies" ->
           { [streaming |-> st, enableCoT |-> cot] : st \in BOOLEAN, cot \in BOOLEAN }
      [] p \in {"repeat", "shapes", "concurrent", "summaries", "functions", "deepreads",
               "clicks", "overlaps", "searches", "resets"} ->
           { [streaming |-> FALSE] }
      [] OTHER -> SettingsInputs

\* what the user types; "toolShaped" is the JSON text of a tool call
MessagesOf(p) == IF p = "shapes" THEN { "hello", "toolShaped" } ELSE { "hello" }

\* result lists of ToolsService.webSearch (urls of the results)
SearchResults == { <<>>, <<"http://a">> }

\* the model's replies to suggestResultsToRead: empty after trim, or with the
\* numbers that autoReadAndSummarizeFromSuggestion parses from it
SuggestReplies ==
    { [empty |-> TRUE, nums |-> <<>>], [empty |-> FALSE, nums |-> <<>>],
      [empty |-> FALSE, nums |-> <<1>>], [empty |-> FALSE, nums |-> <<2, 1>>] }

\* the result lists and the suggestions of a run
SearchResultsOf(p) ==
    CASE p = "clicks" -> { <<"http://a">> }
      [] p = "overlaps" -> { <<"https://b", "http://a">> }
      [] p = "searches" -> { <<"ftp://c", "http://a">> }
      [] OTHER -> SearchResults

SuggestRepliesOf(p) ==
    CASE p = "clicks" -> { [empty |-> FALSE, nums |-> <<1>>] }
      [] p \in {"overlaps", "searches"} -> { [empty |-> FALSE, nums |-> <<2, 1>>] }
      [] OTHER -> SuggestReplies

\* the arguments maxChunks, chunkSize and maxTotalLength of deepReadUrl: those
\* of autoReadAndSummarizeFromSuggestion, and smaller ones
DeepReadArguments ==
    { [maxChunks |-> n, chunkSize |-> DEEP_CHUNK_SIZE, maxTotalLength |-> m] :
        n \in (0..MaxSmallChunks) \cup {DEEP_MAX_CHUNKS},
        m \in {0, DEEP_CHUNK_SIZE, DEEP_MAX_TOTAL_LENGTH} }

\* the arguments of a deep read that follows those of the history log: any
\* for the first one; those of autoReadAndSummarizeFromSuggestion for a page
\* read again, after a read with these arguments
DeepReadArgumentsOf(log) ==
    LET defaults == { a \in DeepReadArguments :
                        /\ a.maxChunks = DEEP_MAX_CHUNKS
                        /\ a.maxTotalLength = DEEP_MAX_TOTAL_LENGTH }
    IN IF log = <<>> THEN DeepReadArguments
       ELSE IF /\ log[Len(log)].maxChunks = DEEP_MAX_CHUNKS
               /\ log[Len(log)].maxTotalLength = DEEP_MAX_TOTAL_LENGTH
       THEN defaults
       ELSE {}

\* lengths of the summaries the model writes in a round, after trim(): in
\* the profile "summaries" none, short, two of which with a separator just
\* exceed MAX_PROMPT_LENGTH, or long in the first round, short or long in
\* the rounds up to MaxLongRounds, and none or short after them
SummaryLengthsOf(p, round) ==
    CASE p # "summaries" -> { 100, 6000 }
      [] round = 1 -> { 0, 100, HALF_PROMPT_LENGTH, 6000 }
      [] round <= MaxLongRounds -> { 100, 6000 }
      [] OTHER -> { 0, 100 }

\* results of ToolsService.instantAnswer, as JSON text; "toolShaped" is an
\* object with the properties tool and arguments
AnswerTextsOf(p) == IF p = "shapes" THEN { "plain", "toolShaped" } ELSE { "plain" }

\* A reply of the conversation model.  text is the reply; json tells what
\* the span from its first '{' to its last '}' is: "none" (there is no such
\* span), "malformed" (JSON.parse throws on it) or "object"; call holds the
\* properties tool and arguments that the span has, or would have if it were
\* well formed ("UNDEF": no such property).
ProseReply(text) ==
    [text |-> text, json |-> "none", call |-> [tool |-> "UNDEF", arguments |-> NoArgs]]
\* '{"tool":"read_url","arguments":{...},}'
MalformedReply == [text |-> "malformedJson", json |-> "malformed", call |-> ReadA]
\* '{"note":"..."}'
OtherObjectReply ==
    [text |-> "otherJson", json |-> "object", call |-> [tool |-> "UNDEF", arguments |-> NoArgs]]
ToolCallReply(c) == [text |-> "toolJson", json |-> "object", call |-> c]

\* Reply texts and their chain-of-thought markers: lead tells whether text
\* precedes the first 'Thinking:', thinking is the trimmed text between the
\* first 'Thinking:' and 'Answer:' (or the end), answer the trimmed text
\* after 'Answer:' ("none": the marker does not occur).
\*   "prose":        'It is sunny.'
\*   "thinkingOnly": 'Thinking: still working'
\*   "complete":     'Thinking: t2 Answer: a2'
\*   "lateThinking": 'Well. Thinking: t3'
CotTexts == { "prose", "thinkingOnly", "complete", "lateThinking" }

CotParts(text) ==
    CASE text = "thinkingOnly" -> [lead |-> FALSE, thinking |-> "still working", answer |-> "none"]
      [] text = "complete" -> [lead |-> FALSE, thinking |-> "t2", answer |-> "a2"]
      [] text = "lateThinking" -> [lead |-> TRUE, thinking |-> "t3", answer |-> "none"]
      [] OTHER -> [lead |-> FALSE, thinking |-> "none", answer |-> "none"]

\* the replies that are not tool calls
ProseRepliesOf(p) ==
    IF p = "replies"
    THEN { ProseReply(x) : x \in CotTexts } \cup { MalformedReply, OtherObjectReply }
    ELSE { ProseReply("prose") }

RepliesOf(p) == { ToolCallReply(c) : c \in CallsOf(p) } \cup ProseRepliesOf(p)

-----------------------------------------------------------------------------
(* settings = { ...settings, ...newSettings } *)
MergeSettings(old, new) ==
    [k \in DOMAIN old |-> IF k \in DOMAIN new THEN new[k] ELSE old[k]]

DefaultSettings == [streaming |-> FALSE, enableCoT |-> FALSE, showThinking |-> TRUE]

\* extractToolCall(text): null when there is no brace-delimited span or when
\* JSON.parse throws on it, else the parsed object
ExtractToolCall_Unparsed(reply) ==
    [null |-> reply.json = "none", tool |-> reply.call.tool,
     arguments |-> reply.call.arguments]

ExtractToolCall(reply) ==
    IF reply.json = "object"
    THEN [null |-> FALSE, tool |-> reply.call.tool, arguments |-> reply.call.arguments]
    ELSE [null |-> TRUE, tool |-> "UNDEF", arguments |-> NoArgs]

\* toolCall && toolCall.tool && toolCall.arguments (the arguments of the
\* objects modelled are objects)
IsToolCall(toolCall) == ~toolCall.null /\ ~Falsy(toolCall.tool)

\* the keys of toolHandlers
HasHandler(tool) == tool \in { "web_search", "read_url", "instant_answer" }

\* response.includes('Thinking:'), response.startsWith('Thinking:'),
\* response.includes('Answer:')
IncludesThinking(response) == CotParts(response).thinking # "none"
StartsWithThinking(response) == IncludesThinking(response) /\ ~CotParts(response).lead
IncludesAnswer(response) == CotParts(response).answer # "none"

\* response.match(/Thinking:(.*?)(?=Answer:|$)/s): the pattern is not
\* anchored, so that it matches whenever 'Thinking:' occurs
ThinkingMatch(response) == IncludesThinking(response)
\* response.match(/Answer:(.*?)$/s)
AnswerMatch(response) == IncludesAnswer(response)

CotResult(thinking, answer, structured, partial, stage) ==
    [thinking |-> thinking, answer |-> answer, hasStructuredResponse |-> structured,
     partial |-> partial, stage |-> stage]

\* no result: processCoTResponse is not called when settings.enableCoT is off
NoCot == CotResult("", "", FALSE, FALSE, "off")

\* variant: the partial result starts from an empty answer
CarriedAnswer_Empty(lastAnswer) == ""

\* answer: lastAnswerContent, in the partial result
CarriedAnswer(lastAnswer) == lastAnswer

\* processCoTResponse(response) with lastThinkingContent = lastThinking and
\* lastAnswerContent = lastAnswer: the result, and the two variables after it
processCoTResponse(response, lastThinking, lastAnswer) ==
    LET parts == CotParts(response) IN
    IF ThinkingMatch(response) /\ AnswerMatch(response)
    THEN [result |-> CotResult(parts.thinking, parts.answer, TRUE, FALSE, "none"),
          lastThinking |-> parts.thinking, lastAnswer |-> parts.answer]
    ELSE IF StartsWithThinking(response) /\ ~IncludesAnswer(response)
    THEN [result |-> CotResult(parts.thinking, CarriedAnswer(lastAnswer), TRUE, TRUE,
                               "thinking"),
          lastThinking |-> parts.thinking, lastAnswer |-> lastAnswer]
    ELSE IF IncludesThinking(response) /\ ~ThinkingMatch(response)
    THEN [result |-> CotResult(parts.thinking, "", FALSE, TRUE, "none"),
          lastThinking |-> lastThinking, lastAnswer |-> lastAnswer]
    ELSE [result |-> CotResult("", response, FALSE, FALSE, "none"),
          lastThinking |-> lastThinking, lastAnswer |-> lastAnswer]

\* JSON.stringify({ tool, args }): a missing property is left out, which
\* the "UNDEF" / Undef values of the argument record stand for; the order
\* of the keys is not modelled
CallSignature(tool, args) == [tool |-> tool, args |-> args]

\* variant: the counter goes up whatever the previous call was
LoopGuardUpdate_CountsEveryCall(last, count, sig) ==
    [last |-> sig, count |-> count + 1]

\* variant: the counter never goes beyond 1
LoopGuardUpdate_NeverCounts(last, count, sig) ==
    [last |-> sig, count |-> 1]

\* lastToolCall and lastToolCallCount after the comparison with the new call
LoopGuardUpdate(last, count, sig) ==
    IF last = sig THEN [last |-> last, count |-> count + 1]
                  ELSE [last |-> sig, count |-> 1]

\* variant: the limit itself is taken for a loop
LoopDetected_AtLimit(count) == count >= MAX_TOOL_CALL_REPEAT

\* lastToolCallCount > MAX_TOOL_CALL_REPEAT
LoopDetected(count) == count > MAX_TOOL_CALL_REPEAT

\* variant: the query is not trimmed before it is tested
ValidQuery_Untrimmed(args) ==
    ~(Falsy(args.query) \/ ~IsString(args.query))

\* the argument checks of the three handlers (TRUE: the handler goes on)
ValidQuery(args) ==
    ~(Falsy(args.query) \/ ~IsString(args.query) \/ Falsy(Trim(args.query)))

ValidUrl(args) ==
    ~(Falsy(args.url) \/ ~IsString(args.url) \/ ~MatchesHttp(args.url))

ValidArgs(tool, args) ==
    IF tool = "read_url" THEN ValidUrl(args) ELSE ValidQuery(args)

-----------------------------------------------------------------------------
Init ==
    /\ profile \in Profiles
    /\ \E s \in InitialSettingsOf(profile) : settings = MergeSettings(DefaultSettings, s)
    /\ chatHistory = <<SystemTurn>>
    /\ lastToolCall = NullCall
    /\ lastToolCallCount = 0
    /\ toolCallHistory = <<>>
    /\ readSnippets = <<>>
    /\ lastSearchResults = <<>>
    /\ autoReadInProgress = FALSE
    /\ readCache = {}
    /\ selectedModel \in ModelsOf(profile)
    /\ tasks = [t \in TaskIds |-> IdleTask]
    /\ running = 0
    /\ lastThinkingContent = ""
    /\ lastAnswerContent = ""
    /\ probe \in ProbesOf(profile)
    /\ calls = <<>>
    /\ exchanges = <<>>
    /\ sums = <<>>
    /\ reads = <<>>
    /\ autos = <<>>
    /\ ops = <<>>
    /\ ui = NoIndicators
    /\ nUserOps = 0

HandleFrame(m, cont) ==
    [fn |-> IF IsGpt(m) THEN "handleOpenAIMessage" ELSE "handleGeminiMessage",
     pc |-> "start", message |-> UserTurn("", FALSE), streaming |-> FALSE, cont |-> cont]

-----------------------------------------------------------------------------
(* User operations: taken when the event loop is idle *)

\* the operations of the profile "resets", in their order: a message, then
\* the chat is cleared, then the controller is initialized again
ResetScript == <<"sendMessage", "clearChat", "init">>

\* the user's next operation may be op
Scripted(op) ==
    profile = "resets" => op = ResetScript[(nUserOps % Len(ResetScript)) + 1]

\* the history after the operation op: the calls made before it, and the
\* loop guard as it found it and as it left it
Operated(op, last, count) ==
    IF profile = "resets"
    THEN Append(ops, [op |-> op, at |-> Len(calls),
                      before |-> [last |-> lastToolCall, count |-> lastToolCallCount],
                      after |-> [last |-> last, count |-> count]])
    ELSE ops

\* variant: clearing the chat starts the count of repeated calls again
CountAfterClearChat_Reset(count) == 0

\* lastToolCallCount after clearChat, which assigns chatHistory and
\* totalTokens only
CountAfterClearChat(count) == count

init ==
    /\ running = 0
    /\ "init" \in UserOpsOf(profile)
    /\ Scripted("init")
    /\ nUserOps < MaxUserOpsOf(profile)
    /\ nUserOps' = nUserOps + 1
    /\ chatHistory' = <<SystemTurn>>
    /\ \E s \in SettingsInputs : settings' = MergeSettings(settings, s)
    /\ UNCHANGED <<guardVars, readVars, envVars, tasks, running, calls, cotVars, sums, reads, ui, autos>>
    /\ ops' = Operated("init", lastToolCall', lastToolCallCount')

updateSettings ==
    /\ running = 0
    /\ "updateSettings" \in UserOpsOf(profile)
    /\ nUserOps < MaxUserOpsOf(profile)
    /\ nUserOps' = nUserOps + 1
    /\ \E s \in SettingsInputs : settings' = MergeSettings(settings, s)
    /\ UNCHANGED <<chatHistory, guardVars, readVars, envVars, tasks, running, calls,
                   cotVars, sums, reads, ui, autos, ops>>

\* chatHistory after clearChat
ClearedHistory == <<>>

clearChat ==
    /\ running = 0
    /\ "clearChat" \in UserOpsOf(profile)
    /\ Scripted("clearChat")
    /\ nUserOps < MaxUserOpsOf(profile)
    /\ nUserOps' = nUserOps + 1
    /\ chatHistory' = ClearedHistory
    /\ lastToolCallCount' = CountAfterClearChat(lastToolCallCount)
    /\ UNCHANGED <<settings, lastToolCall, toolCallHistory, readVars, envVars, tasks,
                   running, calls, cotVars, sums, reads, ui, autos>>
    /\ ops' = Operated("clearChat", lastToolCall', lastToolCallCount')

\* sendMessage up to its await of handleOpenAIMessage / handleGeminiMessage
sendMessage ==
    \E t \in TaskIds, text \in MessagesOf(profile) :
        LET enhanced == UserTurn(text, settings.enableCoT)
            frame == [fn |-> "sendMessage", pc |-> "awaitHandle"]
            callee == [HandleFrame(selectedModel, 0) EXCEPT !.message = enhanced]
        IN
        /\ running = 0
        /\ FreeTask(t)
        /\ nUserOps < MaxUserOpsOf(profile)
        /\ Scripted("sendMessage")
        /\ nUserOps' = nUserOps + 1
        /\ chatHistory' =
              IF IsGpt(selectedModel) THEN Append(chatHistory, enhanced)
              ELSE IF chatHistory = <<>> THEN <<UserTurn("", FALSE)>>
              ELSE chatHistory
        /\ lastThinkingContent' = ""
        /\ lastAnswerContent' = ""
        /\ exchanges' = Logged(exchanges, [kind |-> "send"])
        /\ tasks' = [tasks EXCEPT ![t] = [stack |-> <<frame, callee>>, ret |-> "none"]]
        /\ running' = t
        /\ ui' = Show(ui, "status")
        /\ UNCHANGED <<settings, guardVars, readVars, envVars, calls, sums, reads, autos>>
        /\ ops' = Operated("sendMessage", lastToolCall', lastToolCallCount')

\* sendMessage after handle...Message has returned or thrown (catch, finally)
sendMessageDone ==
    \E t \in TaskIds :
        /\ At(t, "sendMessage", "awaitHandle")
        /\ tasks[t].ret # "none"
        /\ ui' = Clear(ui, "status")
        /\ ReturnFrom(t, "ok")
        /\ UNCHANGED <<chatHistory, settings, guardVars, readVars, envVars, calls,
                       nUserOps, cotVars, sums, reads, autos, ops>>

\* the calls issued so far from outside or by a reply of the model
Issued == Cardinality({ i \in DOMAIN calls : calls[i].origin \in {"outside", "reply"} })

\* processToolCall called from outside (public API, 'read more' click)
\* the environment may issue the next call with skipContinue unset: in a run
\* of repeated calls, only the last call is
MayContinue == profile # "repeat" \/ Len(calls) + 1 = MaxRepeatCalls

handleToolCall ==
    /\ running = 0
    /\ Issued < MaxCallsOf(profile)
    /\ \E t \in TaskIds, c \in CallsOf(profile), skip \in SkipsOf(profile) :
        /\ skip \/ MayContinue
        /\ FreeTask(t)
        /\ tasks' = [tasks EXCEPT ![t] =
              [stack |-> << [fn |-> "processToolCall", pc |-> "start", call |-> c,
                             skip |-> skip, id |-> 0, origin |-> "outside"] >>,
               ret |-> "none"]]
        /\ running' = t
        /\ UNCHANGED <<chatHistory, settings, guardVars, readVars, envVars, calls,
                       nUserOps, cotVars, sums, reads, ui, autos, ops>>

\* the callback given to UIController.addSearchResult: a click on 'read
\* more' of a result shown calls processToolCall, which nothing awaits
clickReadMore ==
    /\ running = 0
    /\ "clickReadMore" \in UserOpsOf(profile)
    /\ nUserOps < MaxUserOpsOf(profile)
    /\ nUserOps' = nUserOps + 1
    /\ \E t \in TaskIds, url \in ui.readMore :
        /\ FreeTask(t)
        /\ tasks' = [tasks EXCEPT ![t] =
              [stack |-> << [fn |-> "processToolCall", pc |-> "start",
                             call |-> ReadCall(url, Num(0), Num(DEFAULT_READ_LENGTH)),
                             skip |-> FALSE, id |-> 0, origin |-> "readMore"] >>,
               ret |-> "none"]]
        /\ running' = t
    /\ UNCHANGED <<chatHistory, settings, guardVars, readVars, envVars, calls,
                   cotVars, sums, reads, ui, autos, ops>>

\* the callback given to UIController.addSummarizeButton: a click calls
\* summarizeSnippets(), which nothing awaits
clickSummarize ==
    /\ running = 0
    /\ "clickSummarize" \in UserOpsOf(profile)
    /\ nUserOps < MaxUserOpsOf(profile)
    /\ nUserOps' = nUserOps + 1
    /\ ui.summarizeButton
    /\ \E t \in TaskIds :
        /\ FreeTask(t)
        /\ tasks' = [tasks EXCEPT ![t] =
              [stack |-> << [fn |-> "summarizeSnippets", pc |-> "start",
                             usesBuffer |-> TRUE, snippets |-> <<>>, round |-> 1,
                             batches |-> <<>>, i |-> 0, batchSummaries |-> <<>>,
                             sid |-> 0] >>,
               ret |-> "none"]]
        /\ running' = t
    /\ UNCHANGED <<chatHistory, settings, guardVars, readVars, envVars, calls,
                   cotVars, sums, reads, ui, autos, ops>>

-----------------------------------------------------------------------------
(* processToolCall *)

\* variant: the log keeps the latest entry only
Audit_KeepsLatest(history, tool, args) == << [tool |-> tool, args |-> args] >>

\* toolCallHistory.push({ tool, args, timestamp })
Audit(history, tool, args) == Append(history, [tool |-> tool, args |-> args])

\* variant: the return after the notice is missing
ReturnsAfterLoopNotice_FallsThrough(count) == FALSE

\* whether processToolCall returns after the loop-detected notice
ReturnsAfterLoopNotice(count) == LoopDetected(count)

\* from its entry to the await of the tool handler
processToolCall ==
    \E t \in TaskIds :
        LET f == Top(tasks[t].stack)
            sig == CallSignature(f.call.tool, f.call.arguments)
            g == LoopGuardUpdate(lastToolCall, lastToolCallCount, sig)
            id == Len(calls) + 1
            detected == LoopDetected(g.count)
            entry == [NewEntry(f.call, f.skip) EXCEPT
                         !.parent = Enclosing(tasks[t].stack),
                         !.origin = f.origin,
                         !.guardBefore = [last |-> lastToolCall, count |-> lastToolCallCount],
                         !.guardAfter = g,
                         !.aborted = detected,
                         !.loopNotices = IF detected THEN 1 ELSE 0]
        IN
        /\ At(t, "processToolCall", "start")
        /\ lastToolCall' = g.last
        /\ lastToolCallCount' = g.count
        /\ IF ReturnsAfterLoopNotice(g.count)
           THEN /\ calls' = Append(calls, entry)
                /\ ReturnFrom(t, "ok")
                /\ UNCHANGED toolCallHistory
           ELSE IF ~HasHandler(f.call.tool)
           THEN /\ calls' = Append(calls, [entry EXCEPT !.raised = TRUE])
                /\ toolCallHistory' =
                      Audit(toolCallHistory, f.call.tool, f.call.arguments)
                /\ ReturnFrom(t, "throw")
           ELSE /\ calls' = Append(calls, [entry EXCEPT !.handlerRuns = 1])
                /\ toolCallHistory' =
                      Audit(toolCallHistory, f.call.tool, f.call.arguments)
                /\ CallFrom(t, [f EXCEPT !.pc = "awaitHandler", !.id = id],
                            [fn |-> "handler", tool |-> f.call.tool, pc |-> "start",
                             args |-> f.call.arguments, id |-> id])
        /\ UNCHANGED <<chatHistory, settings, readVars, envVars, nUserOps, cotVars, sums, reads, ui, autos, ops>>

\* variant: the last turn is not looked at
ContinuesReasoning_WhateverTheLastTurn(skip, isToolCall) == ~skip

\* variant: skipContinue is not looked at
ContinuesReasoning_IgnoresSkip(skip, isToolCall) == ~isToolCall

\* if (!skipContinue) { ... if (!isToolCall) { continue } else { warn } }
ContinuesReasoning(skip, isToolCall) == ~skip /\ ~isToolCall

\* after the handler has returned: continue reasoning unless skipContinue
processToolCallContinue ==
    \E t \in TaskIds :
        LET f == Top(tasks[t].stack)
            isToolCall ==
                /\ chatHistory # <<>>
                /\ ParsesAsToolCall(chatHistory[Len(chatHistory)].content)
            last == IF chatHistory = <<>> THEN [kind |-> "none"]
                    ELSE chatHistory[Len(chatHistory)].content
            noted == [calls EXCEPT ![f.id] =
                        [@ EXCEPT !.returned = TRUE, !.lastAtReturn = last,
                                  !.warnings = IF ~f.skip /\ ~ContinuesReasoning(f.skip, isToolCall)
                                               THEN 1 ELSE 0]]
        IN
        /\ At(t, "processToolCall", "awaitHandler")
        /\ tasks[t].ret # "none"
        /\ IF tasks[t].ret = "throw"
           THEN /\ ReturnFrom(t, "throw")
                /\ UNCHANGED calls
           ELSE /\ calls' = noted
                /\ IF ContinuesReasoning(f.skip, isToolCall)
                   THEN CallFrom(t, [f EXCEPT !.pc = "awaitContinue"],
                                 HandleFrame(selectedModel, f.id))
                   ELSE ReturnFrom(t, "ok")
        /\ UNCHANGED <<chatHistory, settings, guardVars, readVars, envVars, nUserOps,
                       cotVars, sums, reads, ui, autos, ops>>

\* after the continuation (handle...Message) has returned or thrown
processToolCallDone ==
    \E t \in TaskIds :
        /\ At(t, "processToolCall", "awaitContinue")
        /\ tasks[t].ret # "none"
        /\ ReturnFrom(t, tasks[t].ret)
        /\ UNCHANGED <<chatHistory, settings, guardVars, readVars, envVars, calls,
                       nUserOps, cotVars, sums, reads, ui, autos, ops>>

-----------------------------------------------------------------------------
(* toolHandlers *)

\* a handler from its entry to the first await: the argument check, then
\* the request to ToolsService
HandlerStart(t, tool) ==
    LET f == Top(tasks[t].stack) IN
    /\ At(t, "handler", "start")
    /\ f.tool = tool
    /\ IF ValidArgs(tool, f.args)
       THEN /\ calls' = Put(Inc(calls, {f.id}, "toolRuns"), f.id, "indicated", TRUE)
            /\ ui' = Show(ui, Indicator(tool))
            /\ SuspendAt(t, [f EXCEPT !.pc = "awaitTool"])
       ELSE /\ calls' = HandlerReturned(Inc(calls, {f.id}, "errorNotices"), f.id, ui)
            /\ UNCHANGED ui
            /\ ReturnFrom(t, "ok")
    /\ UNCHANGED <<chatHistory, settings, guardVars, readVars, envVars, nUserOps,
                   cotVars, sums, reads, autos, ops>>

\* the catch block of a handler: one failure turn, then the handler returns
HandlerCatch(t, tool) ==
    LET f == Top(tasks[t].stack) IN
    /\ "tool" \in FailuresOf(profile)
    /\ Awaits(t, "handler", "awaitTool")
    /\ f.tool = tool
    /\ chatHistory' = Push(chatHistory, FailedTurn(ToolName(tool)))
    /\ ui' = Clear(ui, Indicator(tool))
    /\ calls' = HandlerReturned(
                    Put(Inc(Pushed(calls, t, chatHistory, chatHistory'), {f.id}, "failTurns"),
                        f.id, "threw", TRUE), f.id, ui')
    /\ ReturnFrom(t, "ok")
    /\ UNCHANGED <<settings, guardVars, readVars, envVars, nUserOps, cotVars, sums, reads, autos, ops>>

web_search == \E t \in TaskIds : HandlerStart(t, "web_search")
read_url == \E t \in TaskIds : HandlerStart(t, "read_url")
instant_answer == \E t \in TaskIds : HandlerStart(t, "instant_answer")

web_search_throws == \E t \in TaskIds : HandlerCatch(t, "web_search")
read_url_throws == \E t \in TaskIds : HandlerCatch(t, "read_url")
instant_answer_throws == \E t \in TaskIds : HandlerCatch(t, "instant_answer")

\* ToolsService.webSearch resolves: the results turn, then suggestResultsToRead
web_search_returns ==
    \E t \in TaskIds, results \in SearchResultsOf(profile) :
        LET f == Top(tasks[t].stack) IN
        /\ Awaits(t, "handler", "awaitTool")
        /\ f.tool = "web_search"
        /\ chatHistory' = Push(chatHistory, SearchTurn(f.args.query, Len(results)))
        /\ calls' = Put(Pushed(calls, t, chatHistory, chatHistory'), f.id, "succeeded", TRUE)
        /\ lastSearchResults' = results
        /\ ui' = [ui EXCEPT !.readMore = @ \cup { results[i] : i \in DOMAIN results }]
        /\ CallFrom(t, [f EXCEPT !.pc = "awaitSuggest"],
                    [fn |-> "suggestResultsToRead", pc |-> "start", results |-> results])
        /\ UNCHANGED <<settings, guardVars, readSnippets, autoReadInProgress, readCache,
                       envVars, nUserOps, cotVars, sums, reads, autos, ops>>

\* web_search after suggestResultsToRead has returned
web_search_done ==
    \E t \in TaskIds :
        /\ At(t, "handler", "awaitSuggest")
        /\ tasks[t].ret # "none"
        /\ ui' = Clear(ui, "spinner")
        /\ calls' = HandlerReturned(calls, Top(tasks[t].stack).id, ui')
        /\ ReturnFrom(t, "ok")
        /\ UNCHANGED <<chatHistory, settings, guardVars, readVars, envVars, nUserOps,
                       cotVars, sums, reads, autos, ops>>

Min(a, b) == IF a < b THEN a ELSE b
Max(a, b) == IF a > b THEN a ELSE b

\* twice the value of a number argument
Twice(a) == 2 * a.v + a.half

\* (typeof args.start === 'number' && args.start >= 0) ? args.start : 0
EffectiveStart(a) == IF a.t = "num" /\ Twice(a) >= 0 THEN a ELSE Num(0)

\* variant: any number is taken as the length
EffectiveLength_AnyNumber(a) == IF a.t = "num" THEN a ELSE Num(DEFAULT_READ_LENGTH)

\* (typeof args.length === 'number' && args.length > 0) ? args.length : 1122
EffectiveLength(a) == IF a.t = "num" /\ Twice(a) > 0 THEN a ELSE Num(DEFAULT_READ_LENGTH)

\* String(result).slice(start, start + length).length for a result of total
\* characters: slice truncates its bounds to integers and clamps them
SliceLength(total, start, length) ==
    LET from == Min(total, Twice(start) \div 2)
        to == Min(total, (Twice(start) + Twice(length)) \div 2)
    IN Max(0, to - from)

\* (start + length) < String(result).length
HasMore(total, start, length) == Twice(start) + Twice(length) < 2 * total

\* ToolsService.readUrl resolves with a page of total characters
read_url_returns ==
    \E t \in TaskIds, total \in PagesOf(profile) :
        LET f == Top(tasks[t].stack)
            start == EffectiveStart(f.args.start)
            length == EffectiveLength(f.args.length)
            from == Min(total, Twice(start) \div 2)
            snippet == SliceLength(total, start, length)
            hasMore == HasMore(total, start, length)
        IN
        /\ Awaits(t, "handler", "awaitTool")
        /\ f.tool = "read_url"
        /\ chatHistory' = Push(chatHistory, ReadTurn(f.args.url, from, snippet, hasMore))
        /\ readSnippets' = Append(readSnippets, Text(f.args.url, from, snippet, FALSE))
        /\ ui' = Clear([ui EXCEPT !.summarizeButton = @ \/ Len(readSnippets') >= 2],
                       "spinner")
        /\ calls' = HandlerReturned(
                        [Pushed(calls, t, chatHistory, chatHistory') EXCEPT ![f.id] =
                            [@ EXCEPT !.succeeded = TRUE, !.total = total,
                                      !.sliceLength = snippet, !.hasMore = hasMore]],
                        f.id, ui')
        /\ ReturnFrom(t, "ok")
        /\ UNCHANGED <<settings, guardVars, lastSearchResults, autoReadInProgress,
                       readCache, envVars, nUserOps, cotVars, sums, reads, autos, ops>>

\* ToolsService.instantAnswer resolves
instant_answer_returns ==
    \E t \in TaskIds, json \in AnswerTextsOf(profile) :
        LET f == Top(tasks[t].stack) IN
        /\ Awaits(t, "handler", "awaitTool")
        /\ f.tool = "instant_answer"
        /\ chatHistory' = Push(chatHistory, AnswerTurn(json))
        /\ ui' = Clear(ui, "status")
        /\ calls' = HandlerReturned(Put(Pushed(calls, t, chatHistory, chatHistory'), f.id,
                                        "succeeded", TRUE), f.id, ui')
        /\ ReturnFrom(t, "ok")
        /\ UNCHANGED <<settings, guardVars, readVars, envVars, nUserOps, cotVars, sums, reads, autos, ops>>

-----------------------------------------------------------------------------
(* handleOpenAIMessage / handleGeminiMessage *)

\* the content of the last assistant turn of a conversation
LastAssistant(h) ==
    LET idx == { i \in DOMAIN h : h[i].role = "assistant" } IN
    IF idx = {} THEN [kind |-> "none"]
    ELSE h[CHOOSE i \in idx : \A j \in idx : j <= i].content

\* the request is sent with the conversation h; noted when it continues a tool call
Requested(log, cont, h) ==
    IF cont = 0 THEN log
    ELSE Put(Inc(log, {cont}, "contRequests"), cont, "contSaw", LastAssistant(h))

\* handleOpenAIMessage from its entry to the await of the model request
handleOpenAIMessage ==
    \E t \in TaskIds :
        LET f == Top(tasks[t].stack) IN
        /\ At(t, "handleOpenAIMessage", "start")
        /\ calls' = Requested(calls, f.cont, chatHistory)
        /\ ui' = Show(ui, "status")
        /\ SuspendAt(t, [f EXCEPT !.pc = "awaitModel", !.streaming = settings.streaming])
        /\ UNCHANGED <<chatHistory, settings, guardVars, readVars, envVars, nUserOps,
                       cotVars, sums, reads, autos, ops>>

\* handleGeminiMessage from its entry to the await of the model request
handleGeminiMessage ==
    \E t \in TaskIds :
        LET f == Top(tasks[t].stack)
            h == Append(chatHistory, f.message)
        IN
        /\ At(t, "handleGeminiMessage", "start")
        /\ chatHistory' = h
        /\ calls' = Requested(Pushed(calls, t, chatHistory, h), f.cont, h)
        /\ SuspendAt(t, [f EXCEPT !.pc = "awaitModel", !.streaming = settings.streaming])
        /\ UNCHANGED <<settings, guardVars, readVars, envVars, nUserOps, cotVars, sums, reads, ui, autos, ops>>

InHandle(t, pc) ==
    \/ Awaits(t, "handleOpenAIMessage", pc)
    \/ Awaits(t, "handleGeminiMessage", pc)

\* the model's reply arrives and is a tool call: processToolCall(toolCall)
modelRepliesToolCall ==
    /\ running = 0
    /\ Issued < MaxCallsOf(profile)
    /\ MayContinue
    /\ \E t \in { u \in TaskIds : InHandle(u, "awaitModel") },
          reply \in RepliesOf(profile) :
        LET toolCall == ExtractToolCall(reply) IN
        /\ IsToolCall(toolCall)
        /\ CallFrom(t, [Top(tasks[t].stack) EXCEPT !.pc = "awaitTool"],
                    [fn |-> "processToolCall", pc |-> "start",
                     call |-> [tool |-> toolCall.tool, arguments |-> toolCall.arguments],
                     skip |-> FALSE, id |-> 0, origin |-> "reply"])
        /\ exchanges' = Logged(exchanges,
              [kind |-> "reply", reply |-> reply, dispatched |-> TRUE, appended |-> <<>>,
               call |-> Len(calls) + 1, cot |-> NoCot, before |-> lastAnswerContent,
               after |-> lastAnswerContent, thinkingAfter |-> lastThinkingContent])
        /\ UNCHANGED <<chatHistory, settings, guardVars, readVars, envVars, calls,
                       nUserOps, lastThinkingContent, lastAnswerContent, sums, reads, ui, autos, ops>>

\* the model's reply arrives and is not a tool call: one assistant turn
modelRepliesProse ==
    \E t \in { u \in TaskIds : InHandle(u, "awaitModel") },
       reply \in RepliesOf(profile) :
        LET f == Top(tasks[t].stack)
            processed == processCoTResponse(reply.text, lastThinkingContent,
                                            lastAnswerContent)
        IN
        /\ ~IsToolCall(ExtractToolCall(reply))
        /\ IF settings.enableCoT
           THEN /\ lastThinkingContent' = processed.lastThinking
                /\ lastAnswerContent' = processed.lastAnswer
           ELSE UNCHANGED <<lastThinkingContent, lastAnswerContent>>
        /\ chatHistory' = Append(chatHistory, ReplyTurn(reply.text))
        /\ exchanges' = Logged(exchanges,
              [kind |-> "reply", reply |-> reply, dispatched |-> FALSE,
               appended |-> SubSeq(chatHistory', Len(chatHistory) + 1, Len(chatHistory')),
               call |-> 0,
               cot |-> IF settings.enableCoT THEN processed.result ELSE NoCot,
               before |-> lastAnswerContent, after |-> lastAnswerContent',
               thinkingAfter |-> lastThinkingContent'])
        /\ calls' = Pushed(calls, t, chatHistory, chatHistory')
        /\ IF f.streaming THEN SuspendAt(t, [f EXCEPT !.pc = "awaitTokens"])
                          ELSE ReturnFrom(t, "ok")
        /\ UNCHANGED <<settings, guardVars, readVars, envVars, nUserOps, sums, reads, ui, autos, ops>>

\* the model request fails: handle...Message throws
modelFails ==
    \E t \in TaskIds :
        /\ "model" \in FailuresOf(profile)
        /\ InHandle(t, "awaitModel")
        /\ ReturnFrom(t, "throw")
        /\ UNCHANGED <<chatHistory, settings, guardVars, readVars, envVars, calls,
                       nUserOps, cotVars, sums, reads, ui, autos, ops>>

\* streaming: ApiService.getTokenUsage resolves or rejects
tokenUsageArrives ==
    \E t \in TaskIds, r \in {"ok", "throw"} :
        /\ InHandle(t, "awaitTokens")
        /\ ReturnFrom(t, r)
        /\ UNCHANGED <<chatHistory, settings, guardVars, readVars, envVars, calls,
                       nUserOps, cotVars, sums, reads, ui, autos, ops>>

\* after `await processToolCall(toolCall); return;`
handleMessageDone ==
    \E t \in TaskIds :
        /\ \/ At(t, "handleOpenAIMessage", "awaitTool")
           \/ At(t, "handleGeminiMessage", "awaitTool")
        /\ tasks[t].ret # "none"
        /\ ReturnFrom(t, tasks[t].ret)
        /\ UNCHANGED <<chatHistory, settings, guardVars, readVars, envVars, calls,
                       nUserOps, cotVars, sums, reads, ui, autos, ops>>

-----------------------------------------------------------------------------
(* deepReadUrl *)

\* deepReadUrl(url, maxChunks, chunkSize, maxTotalLength); rid: its entry in
\* the history
DeepReadFrame(url, maxChunks, chunkSize, maxTotalLength) ==
    [fn |-> "deepReadUrl", pc |-> "loop", url |-> url, maxChunks |-> maxChunks,
     chunkSize |-> chunkSize, maxTotalLength |-> maxTotalLength, start |-> 0,
     shouldContinue |-> TRUE, chunkCount |-> 0, totalLength |-> 0, allChunks |-> <<>>,
     rid |-> 0]

\* `${url}:${start}:${chunkSize}`
CacheKey(url, start, chunkSize) == [url |-> url, start |-> start, length |-> chunkSize]
CacheHas(cache, key) == \E e \in cache : e.key = key
CacheGet(cache, key) == (CHOOSE e \in cache : e.key = key).snippet
CacheSet(cache, key, snippet) ==
    { e \in cache : e.key # key } \cup { [key |-> key, snippet |-> snippet] }

\* History of deepReadUrl invocations, kept in the profile "deepreads".
\* retrievals: one item per chunk retrieval, with the offset, whether the
\* cache had it, totalLength and chunkCount before it, and the judgments
\* made before it; judgments: the model's replies, "failed" for a request
\* that threw; fetchedLengths: the pages the fetches have returned; chunks:
\* the list returned; exit: shouldContinue, chunkCount and totalLength when
\* the invocation returned; raised: it has thrown
NewRead(f) ==
    [url |-> f.url, maxChunks |-> f.maxChunks, chunkSize |-> f.chunkSize,
     maxTotalLength |-> f.maxTotalLength, retrievals |-> <<>>, judgments |-> <<>>,
     fetchedLengths |-> <<>>, chunks |-> <<>>, returned |-> FALSE, raised |-> FALSE,
     exit |-> [shouldContinue |-> TRUE, chunkCount |-> 0, totalLength |-> 0,
               at |-> "none"]]

ReadsKept(new) == IF profile = "deepreads" THEN new ELSE reads

\* the invocation of frame f returns chunks from the place at
ReadReturned(log, f, chunks, at) ==
    [log EXCEPT ![f.rid] =
        With(@, [returned |-> TRUE, chunks |-> chunks,
                 exit |-> [shouldContinue |-> f.shouldContinue,
                           chunkCount |-> f.chunkCount,
                           totalLength |-> f.totalLength, at |-> at]])]

\* variant: one chunk more than maxChunks
LoopContinues_OneMore(shouldContinue, chunkCount, maxChunks, totalLength, maxTotalLength) ==
    shouldContinue /\ chunkCount <= maxChunks /\ totalLength < maxTotalLength

\* shouldContinue && chunkCount < maxChunks && totalLength < maxTotalLength
LoopContinues(shouldContinue, chunkCount, maxChunks, totalLength, maxTotalLength) ==
    shouldContinue /\ chunkCount < maxChunks /\ totalLength < maxTotalLength

\* variant: the length read so far is not looked at
NeedsMore_WheneverYes(aiReply, totalLength, maxTotalLength) == aiReply = "yes"

\* aiReply.startsWith('yes') && totalLength < maxTotalLength
NeedsMore(aiReply, totalLength, maxTotalLength) ==
    aiReply = "yes" /\ totalLength < maxTotalLength

\* variant: the loop goes on after a failed request
StopsOnJudgeFailure_Not(shouldContinue) == FALSE

\* catch (err) { shouldContinue = false; break; }
StopsOnJudgeFailure(shouldContinue) == TRUE

\* what the model answers to the question whether more content is needed
JudgeRepliesOf(p) ==
    IF p \in {"clicks", "overlaps", "searches"} THEN { "no" } ELSE { "yes", "no" }

\* deepReadUrl once it has the snippet of a chunk: the break on an empty
\* snippet, else the question to the model whether more is needed
DeepReadGot(t, f, snippet, log) ==
    LET g == [f EXCEPT !.allChunks = Append(@, snippet),
                       !.totalLength = @ + TextLength(snippet)]
    IN
    IF TextLength(snippet) = 0
    THEN /\ ReturnFrom(t, "ok")
         /\ reads' = ReadsKept(ReadReturned(log, f, f.allChunks, "empty"))
    ELSE /\ reads' = ReadsKept(log)
         /\ IF IsGpt(selectedModel) THEN SuspendAt(t, [g EXCEPT !.pc = "awaitJudge"])
            ELSE StepTo(t, [g EXCEPT !.pc = "loop", !.shouldContinue = FALSE])

\* the head of the while loop: the cache, else processToolCall with skipContinue
deepReadUrl ==
    \E t \in TaskIds :
        LET f0 == Top(tasks[t].stack)
            first == f0.rid = 0 /\ profile = "deepreads"
            f == IF first THEN [f0 EXCEPT !.rid = Len(reads) + 1] ELSE f0
            log == IF first THEN Append(reads, NewRead(f)) ELSE reads
            key == CacheKey(f.url, f.start, f.chunkSize)
            item == [start |-> f.start, cached |-> CacheHas(readCache, key),
                     totalLength |-> f.totalLength, chunkCount |-> f.chunkCount,
                     judgments |-> IF f.rid = 0 THEN <<>> ELSE log[f.rid].judgments]
            got == [log EXCEPT ![f.rid] = With(@, [retrievals |-> Append(@.retrievals, item)])]
        IN
        /\ At(t, "deepReadUrl", "loop")
        /\ IF ~LoopContinues(f.shouldContinue, f.chunkCount, f.maxChunks, f.totalLength,
                             f.maxTotalLength)
           THEN /\ ReturnFrom(t, "ok")
                /\ reads' = ReadsKept(ReadReturned(log, f, f.allChunks, "loop"))
           ELSE IF CacheHas(readCache, key)
           THEN DeepReadGot(t, f, CacheGet(readCache, key), got)
           ELSE /\ CallFrom(t, [f EXCEPT !.pc = "awaitFetch"],
                            [fn |-> "processToolCall", pc |-> "start",
                             call |-> ReadCall(f.url, Num(f.start), Num(f.chunkSize)),
                             skip |-> TRUE, id |-> 0, origin |-> "deepReadUrl"])
                /\ reads' = ReadsKept(got)
        /\ UNCHANGED <<chatHistory, settings, guardVars, readVars, envVars, calls,
                       nUserOps, cotVars, sums, ui, autos, ops>>

\* after processToolCall: the snippet is taken from the last turn of chatHistory
deepReadUrlFetched ==
    \E t \in TaskIds :
        LET f == Top(tasks[t].stack)
            key == CacheKey(f.url, f.start, f.chunkSize)
            found == /\ chatHistory # <<>>
                     /\ chatHistory[Len(chatHistory)].content.kind = "readContent"
            c == chatHistory[Len(chatHistory)].content
            snippet == IF found THEN Text(c.url, c.from, c.len, c.more) ELSE EmptyText
            fetched == [reads EXCEPT ![f.rid] =
                           With(@, [fetchedLengths |->
                                       Append(@.fetchedLengths, calls[Len(calls)].total)])]
        IN
        /\ At(t, "deepReadUrl", "awaitFetch")
        /\ tasks[t].ret # "none"
        /\ readCache' = IF found /\ tasks[t].ret # "throw"
                        THEN CacheSet(readCache, key, snippet) ELSE readCache
        /\ IF tasks[t].ret = "throw"
           THEN /\ ReturnFrom(t, "throw")
                /\ reads' = ReadsKept([reads EXCEPT ![f.rid] = With(@, [raised |-> TRUE])])
           ELSE DeepReadGot(t, f, snippet, fetched)
        /\ UNCHANGED <<chatHistory, settings, guardVars, readSnippets, lastSearchResults,
                       autoReadInProgress, envVars, calls, nUserOps, cotVars, sums, ui, autos, ops>>

\* the model answers whether more content is needed
deepReadUrlJudged ==
    \E t \in TaskIds, aiReply \in JudgeRepliesOf(profile) :
        LET f == Top(tasks[t].stack) IN
        /\ Awaits(t, "deepReadUrl", "awaitJudge")
        /\ IF NeedsMore(aiReply, f.totalLength, f.maxTotalLength)
           THEN StepTo(t, [f EXCEPT !.pc = "loop", !.start = @ + f.chunkSize,
                                    !.chunkCount = @ + 1, !.shouldContinue = TRUE])
           ELSE StepTo(t, [f EXCEPT !.pc = "loop", !.shouldContinue = FALSE])
        /\ reads' = ReadsKept([reads EXCEPT ![f.rid] =
                                 With(@, [judgments |-> Append(@.judgments, aiReply)])])
        /\ UNCHANGED <<chatHistory, settings, guardVars, readVars, envVars, calls,
                       nUserOps, cotVars, sums, ui, autos, ops>>

\* the question to the model fails: the loop is left
deepReadUrlJudgeFails ==
    \E t \in TaskIds :
        LET f == Top(tasks[t].stack)
            failed == [reads EXCEPT ![f.rid] =
                          With(@, [judgments |-> Append(@.judgments, "failed")])]
        IN
        /\ "judgment" \in FailuresOf(profile)
        /\ Awaits(t, "deepReadUrl", "awaitJudge")
        /\ IF StopsOnJudgeFailure(f.shouldContinue)
           THEN /\ ReturnFrom(t, "ok")
                /\ reads' = ReadsKept(ReadReturned(failed,
                                                   [f EXCEPT !.shouldContinue = FALSE],
                                                   f.allChunks, "catch"))
           ELSE /\ StepTo(t, [f EXCEPT !.pc = "loop"])
                /\ reads' = ReadsKept(failed)
        /\ UNCHANGED <<chatHistory, settings, guardVars, readVars, envVars, calls,
                       nUserOps, cotVars, sums, ui, autos, ops>>

\* deepReadUrl called with the arguments of the profile "deepreads"
callDeepReadUrl ==
    /\ profile = "deepreads"
    /\ running = 0
    /\ Len(reads) < MaxDeepReads
    /\ \E t \in TaskIds, a \in DeepReadArgumentsOf(reads) :
        /\ FreeTask(t)
        /\ tasks' = [tasks EXCEPT ![t] =
              [stack |-> << DeepReadFrame("http://a", a.maxChunks, a.chunkSize,
                                          a.maxTotalLength) >>,
               ret |-> "none"]]
        /\ running' = t
    /\ UNCHANGED <<chatHistory, settings, guardVars, readVars, envVars, calls,
                   nUserOps, cotVars, sums, reads, ui, autos, ops>>

-----------------------------------------------------------------------------
(* splitIntoBatches and summarizeSnippets *)

\* variant: the batch is closed once it has reached the budget
Flushes_WhenFull(currentLen, n, maxLen, currentBatch) ==
    currentLen >= maxLen /\ currentBatch # <<>>

\* currentLen + snippet.length > maxLen && currentBatch.length
Flushes(currentLen, n, maxLen, currentBatch) ==
    currentLen + n > maxLen /\ currentBatch # <<>>

RECURSIVE SplitFrom(_, _, _, _, _, _)
SplitFrom(snippets, i, maxLen, batches, currentBatch, currentLen) ==
    IF i > Len(snippets)
    THEN IF currentBatch # <<>> THEN Append(batches, currentBatch) ELSE batches
    ELSE LET n == TextLength(snippets[i])
             flush == Flushes(currentLen, n, maxLen, currentBatch)
         IN SplitFrom(snippets, i + 1, maxLen,
                      IF flush THEN Append(batches, currentBatch) ELSE batches,
                      Append(IF flush THEN <<>> ELSE currentBatch, snippets[i]),
                      (IF flush THEN 0 ELSE currentLen) + n)

splitIntoBatches(snippets, maxLen) == SplitFrom(snippets, 1, maxLen, <<>>, <<>>, 0)

\* splitIntoBatches applied to the arguments of the run
applySplitIntoBatches ==
    /\ probe.fn = "splitIntoBatches"
    /\ ~probe.applied
    /\ probe' = [probe EXCEPT !.applied = TRUE,
                              !.batches = splitIntoBatches(probe.snippets, probe.maxLen)]
    /\ UNCHANGED <<chatHistory, settings, guardVars, readVars, selectedModel, profile,
                   tasks, running, calls, nUserOps, cotVars, sums, reads, ui, autos, ops>>

RECURSIVE SumLengths(_)
SumLengths(texts) ==
    IF texts = <<>> THEN 0 ELSE TextLength(Head(texts)) + SumLengths(Tail(texts))

\* variant: the separators are not counted
CombinedLength_NoSeparators(summaries) == SumLengths(summaries)

\* batchSummaries.join('\n---\n').length
CombinedLength(summaries) ==
    SumLengths(summaries) + SEPARATOR_LENGTH * (Len(summaries) - 1)

\* variant: the buffer is kept
Cleared_Kept(buffer) == buffer

\* readSnippets = []
Cleared(buffer) == <<>>

\* variant: the buffer is emptied before the next round starts
BufferOnRecursion_Emptied(buffer) == <<>>

\* readSnippets while summarizeSnippets(batchSummaries, round + 1) is
\* awaited: no assignment
BufferOnRecursion(buffer) == buffer

\* History of summarizeSnippets invocations, kept in the profile
\* "summaries".  run: the first invocation of the recursion; parent: the
\* invocation that awaits this one (0: none); count, nBatches: its snippets
\* and batches; requests: requests sent to the model; lengths: lengths of
\* the summaries received; summaryNotices, failNotices: 'Summary:' and
\* 'Summarization failed' messages shown; recursed: it has called itself;
\* returned, bufferAtReturn: it has returned, with readSnippets of that
\* length; clears: its assignments readSnippets = []; clearedPending: one
\* of them while a deeper round was starting or had not returned;
\* clearedEarly: one of them before any summary or failure notice of the run
NewSum(run, parent, round, snippets, batches) ==
    [run |-> run, parent |-> parent, round |-> round, count |-> Len(snippets),
     nBatches |-> Len(batches), requests |-> 1, lengths |-> <<>>,
     summaryNotices |-> 0, failNotices |-> 0, recursed |-> FALSE,
     returned |-> FALSE, bufferAtReturn |-> 0, clears |-> 0,
     clearedPending |-> FALSE, clearedEarly |-> FALSE]

Summed(new) == IF profile = "summaries" THEN new ELSE sums

\* the invocation id assigns to readSnippets; recursing: in the step that
\* calls the next round
ClearedBy(log, id, recursing) ==
    LET pending == recursing \/ \E d \in DOMAIN log :
                                    log[d].parent = id /\ ~log[d].returned
        noticed == \E d \in DOMAIN log :
                       /\ log[d].run = log[id].run
                       /\ log[d].summaryNotices + log[d].failNotices > 0
    IN [log EXCEPT ![id] = With(@, [clears |-> @.clears + 1,
                                    clearedPending |-> @.clearedPending \/ pending,
                                    clearedEarly |-> @.clearedEarly \/ ~noticed])]

ReturnedWith(log, id, buffer) ==
    [log EXCEPT ![id] = With(@, [returned |-> TRUE, bufferAtReturn |-> Len(buffer)])]

\* variant: no further round after the second
Recurses_TwoRoundsAtMost(combinedLength, round) ==
    combinedLength > MAX_PROMPT_LENGTH /\ round < 2

\* if (combined.length > MAX_PROMPT_LENGTH): the round is not looked at
Recurses(combinedLength, round) == combinedLength > MAX_PROMPT_LENGTH

\* summarizeSnippets(snippets, round); usesBuffer: called with snippets = null
SummarizeFrame(usesBuffer, snippets, round) ==
    [fn |-> "summarizeSnippets", pc |-> "start", usesBuffer |-> usesBuffer,
     snippets |-> snippets, round |-> round, batches |-> <<>>, i |-> 0,
     batchSummaries |-> <<>>, sid |-> 0]

\* from its entry to the first request to the model
summarizeSnippets ==
    \E t \in TaskIds :
        LET f == Top(tasks[t].stack)
            snippets == IF f.usesBuffer THEN readSnippets ELSE f.snippets
            batches == IF Len(snippets) = 1 THEN <<>>
                       ELSE splitIntoBatches(snippets, MAX_PROMPT_LENGTH)
            sid == IF profile = "summaries" THEN Len(sums) + 1 ELSE 0
            below == tasks[t].stack[Len(tasks[t].stack) - 1]
            parent == IF Len(tasks[t].stack) > 1 /\ below.fn = "summarizeSnippets"
                      THEN below.sid ELSE 0
        IN
        /\ At(t, "summarizeSnippets", "start")
        /\ IF snippets = <<>>
           THEN /\ ReturnFrom(t, "ok")
                /\ UNCHANGED <<sums, ui>>
           ELSE /\ ui' = Show(ui, "spinner")
                /\ SuspendAt(t, [f EXCEPT !.pc = IF Len(snippets) = 1 THEN "awaitSingle"
                                                 ELSE "awaitBatch",
                                          !.snippets = snippets, !.batches = batches,
                                          !.i = 1, !.sid = sid])
                /\ sums' = Summed(Append(sums,
                              NewSum(IF parent = 0 THEN sid ELSE sums[parent].run,
                                     parent, f.round, snippets, batches)))
        /\ UNCHANGED <<chatHistory, settings, guardVars, readVars, envVars, calls,
                       nUserOps, cotVars, reads, autos, ops>>

\* one snippet: the summary arrives and is shown unless it is empty; the
\* buffer is cleared
summarizeSingleDone ==
    \E t \in TaskIds :
        /\ Awaits(t, "summarizeSnippets", "awaitSingle")
        /\ \E n \in SummaryLengthsOf(profile, Top(tasks[t].stack).round) :
            LET f == Top(tasks[t].stack) IN
            /\ readSnippets' = Cleared(readSnippets)
            /\ sums' = Summed(ReturnedWith(ClearedBy(
                          [sums EXCEPT ![f.sid] =
                              With(@, [lengths |-> Append(@.lengths, n),
                                       summaryNotices |-> IF n > 0 THEN 1 ELSE 0])],
                          f.sid, FALSE), f.sid, readSnippets'))
        /\ ui' = Clear(ui, "spinner")
        /\ ReturnFrom(t, "ok")
        /\ UNCHANGED <<chatHistory, settings, guardVars, lastSearchResults,
                       autoReadInProgress, readCache, envVars, calls, nUserOps,
                       cotVars, reads, autos, ops>>

\* one snippet: the request fails; the catch block, then the buffer is cleared
summarizeSingleFails ==
    \E t \in TaskIds :
        LET f == Top(tasks[t].stack) IN
        /\ "summary" \in FailuresOf(profile)
        /\ Awaits(t, "summarizeSnippets", "awaitSingle")
        /\ readSnippets' = Cleared(readSnippets)
        /\ sums' = Summed(ReturnedWith(ClearedBy(
                      [sums EXCEPT ![f.sid] = With(@, [failNotices |-> 1])],
                      f.sid, FALSE), f.sid, readSnippets'))
        /\ ui' = Clear(ui, "spinner")
        /\ ReturnFrom(t, "ok")
        /\ UNCHANGED <<chatHistory, settings, guardVars, lastSearchResults,
                       autoReadInProgress, readCache, envVars, calls, nUserOps,
                       cotVars, reads, autos, ops>>

\* the summary of batch i arrives: the request for the next batch, or the
\* next round, or the final summary
summarizeBatchDone ==
    \E t \in TaskIds :
        /\ Awaits(t, "summarizeSnippets", "awaitBatch")
        /\ \E n \in SummaryLengthsOf(profile, Top(tasks[t].stack).round) :
            LET f == Top(tasks[t].stack)
                summaries == Append(f.batchSummaries, Text("summary", f.round, n, FALSE))
                g == [f EXCEPT !.batchSummaries = summaries]
                received == [sums EXCEPT ![f.sid] =
                                With(@, [lengths |-> Append(@.lengths, n)])]
            IN
            IF f.i < Len(f.batches)
            THEN /\ SuspendAt(t, [g EXCEPT !.i = @ + 1])
                 /\ sums' = Summed([received EXCEPT ![f.sid] =
                                       With(@, [requests |-> @.requests + 1])])
                 /\ UNCHANGED readSnippets
                 /\ ui' = Show(ui, "spinner")
            ELSE IF Recurses(CombinedLength(summaries), f.round)
            THEN /\ CallFrom(t, [g EXCEPT !.pc = "awaitRecurse"],
                             SummarizeFrame(FALSE, summaries, f.round + 1))
                 /\ readSnippets' = BufferOnRecursion(readSnippets)
                 /\ ui' = Show(ui, "spinner")
                 /\ sums' = Summed(LET called == [received EXCEPT ![f.sid] =
                                                     With(@, [recursed |-> TRUE])]
                                   IN IF readSnippets' = readSnippets THEN called
                                      ELSE ClearedBy(called, f.sid, TRUE))
            ELSE /\ readSnippets' = Cleared(readSnippets)
                 /\ sums' = Summed(ReturnedWith(ClearedBy(
                               [received EXCEPT ![f.sid] = With(@, [summaryNotices |-> 1])],
                               f.sid, FALSE), f.sid, readSnippets'))
                 /\ ui' = Clear(Show(ui, "spinner"), "spinner")
                 /\ ReturnFrom(t, "ok")
        /\ UNCHANGED <<chatHistory, settings, guardVars, lastSearchResults,
                       autoReadInProgress, readCache, envVars, calls, nUserOps,
                       cotVars, reads, autos, ops>>

\* the request for a batch fails: the catch block, then the buffer is cleared
summarizeBatchFails ==
    \E t \in TaskIds :
        LET f == Top(tasks[t].stack) IN
        /\ "summary" \in FailuresOf(profile)
        /\ Awaits(t, "summarizeSnippets", "awaitBatch")
        /\ readSnippets' = Cleared(readSnippets)
        /\ sums' = Summed(ReturnedWith(ClearedBy(
                      [sums EXCEPT ![f.sid] = With(@, [failNotices |-> 1])],
                      f.sid, FALSE), f.sid, readSnippets'))
        /\ ui' = Clear(ui, "spinner")
        /\ ReturnFrom(t, "ok")
        /\ UNCHANGED <<chatHistory, settings, guardVars, lastSearchResults,
                       autoReadInProgress, readCache, envVars, calls, nUserOps,
                       cotVars, reads, autos, ops>>

\* after the recursive call has returned
summarizeRecursionDone ==
    \E t \in TaskIds :
        LET f == Top(tasks[t].stack) IN
        /\ At(t, "summarizeSnippets", "awaitRecurse")
        /\ tasks[t].ret # "none"
        /\ readSnippets' = Cleared(readSnippets)
        /\ sums' = Summed(ReturnedWith(ClearedBy(sums, f.sid, FALSE), f.sid,
                                       readSnippets'))
        /\ ui' = Clear(ui, "spinner")
        /\ ReturnFrom(t, "ok")
        /\ UNCHANGED <<chatHistory, settings, guardVars, lastSearchResults,
                       autoReadInProgress, readCache, envVars, calls, nUserOps,
                       cotVars, reads, autos, ops>>

-----------------------------------------------------------------------------
(* suggestResultsToRead and autoReadAndSummarizeFromSuggestion *)

\* from its entry to the request to the model
suggestResultsToRead ==
    \E t \in TaskIds :
        LET f == Top(tasks[t].stack) IN
        /\ At(t, "suggestResultsToRead", "start")
        /\ IF f.results = <<>> \/ ~IsGpt(selectedModel) THEN ReturnFrom(t, "ok")
           ELSE SuspendAt(t, [f EXCEPT !.pc = "awaitModel"])
        /\ UNCHANGED <<chatHistory, settings, guardVars, readVars, envVars, calls,
                       nUserOps, cotVars, sums, reads, ui, autos, ops>>

\* the model's suggestion arrives; reply.nums are the numbers parsed from it
suggestionArrives ==
    \E t \in TaskIds, reply \in SuggestRepliesOf(profile) :
        LET f == Top(tasks[t].stack) IN
        /\ Awaits(t, "suggestResultsToRead", "awaitModel")
        /\ IF reply.empty THEN ReturnFrom(t, "ok")
           ELSE CallFrom(t, [f EXCEPT !.pc = "awaitAutoRead"],
                         [fn |-> "autoReadAndSummarizeFromSuggestion", pc |-> "start",
                          nums |-> reply.nums, urlsToRead |-> <<>>, i |-> 0, aid |-> 0])
        /\ UNCHANGED <<chatHistory, settings, guardVars, readVars, envVars, calls,
                       nUserOps, cotVars, sums, reads, ui, autos, ops>>

\* the request fails (caught and ignored)
suggestionFails ==
    \E t \in TaskIds :
        /\ "suggestion" \in FailuresOf(profile)
        /\ Awaits(t, "suggestResultsToRead", "awaitModel")
        /\ ReturnFrom(t, "ok")
        /\ UNCHANGED <<chatHistory, settings, guardVars, readVars, envVars, calls,
                       nUserOps, cotVars, sums, reads, ui, autos, ops>>

\* after autoReadAndSummarizeFromSuggestion has returned or thrown (caught)
suggestResultsToReadDone ==
    \E t \in TaskIds :
        /\ At(t, "suggestResultsToRead", "awaitAutoRead")
        /\ tasks[t].ret # "none"
        /\ ReturnFrom(t, "ok")
        /\ UNCHANGED <<chatHistory, settings, guardVars, readVars, envVars, calls,
                       nUserOps, cotVars, sums, reads, ui, autos, ops>>

\* nums.map(n => lastSearchResults[n-1]?.url).filter(Boolean)
UrlsToRead(nums, results) ==
    LET RECURSIVE Pick(_)
        Pick(i) == IF i > Len(nums) THEN <<>>
                   ELSE (IF nums[i] \in DOMAIN results THEN <<results[nums[i]]>> ELSE <<>>)
                        \o Pick(i + 1)
    IN Pick(1)

\* an entry of the history of autoReadAndSummarizeFromSuggestion invocations.
\* inProgressAtEntry: autoReadInProgress when it was called; started: it has
\* set the flag; urls: the urls it reads; deepReads: the deepReadUrl calls it
\* has made; summaries: its calls of summarizeSnippets; readsBeforeSummary:
\* the deepReadUrl calls that had returned when it called summarizeSnippets;
\* returned, raised: it has returned, by an exception
NewAuto ==
    [inProgressAtEntry |-> FALSE, started |-> FALSE, urls |-> 0, deepReads |-> 0,
     summaries |-> 0, readsBeforeSummary |-> 0, returned |-> FALSE, raised |-> FALSE]

AutosKept(new) == IF profile = "overlaps" THEN new ELSE autos

\* variant: the flag is not looked at
Overlaps_Ignored(inProgress) == FALSE

\* if (autoReadInProgress) return;
Overlaps(inProgress) == inProgress

\* from its entry to the first deepReadUrl
autoReadAndSummarizeFromSuggestion ==
    \E t \in TaskIds :
        LET f == Top(tasks[t].stack)
            urls == UrlsToRead(f.nums, lastSearchResults)
            aid == IF profile = "overlaps" THEN Len(autos) + 1 ELSE 0
            entry == [NewAuto EXCEPT !.inProgressAtEntry = autoReadInProgress]
        IN
        /\ At(t, "autoReadAndSummarizeFromSuggestion", "start")
        /\ IF \/ Overlaps(autoReadInProgress)
              \/ lastSearchResults = <<>> \/ f.nums = <<>> \/ urls = <<>>
           THEN /\ ReturnFrom(t, "ok")
                /\ autos' = AutosKept(Append(autos, [entry EXCEPT !.returned = TRUE]))
                /\ UNCHANGED <<autoReadInProgress, ui>>
           ELSE /\ autoReadInProgress' = TRUE
                /\ ui' = Show(ui, "spinner")
                /\ autos' = AutosKept(Append(autos,
                               With(entry, [started |-> TRUE, urls |-> Len(urls),
                                            deepReads |-> 1])))
                /\ CallFrom(t, [f EXCEPT !.pc = "awaitDeepRead", !.urlsToRead = urls,
                                         !.i = 1, !.aid = aid],
                            DeepReadFrame(urls[1], DEEP_MAX_CHUNKS, DEEP_CHUNK_SIZE,
                                          DEEP_MAX_TOTAL_LENGTH))
        /\ UNCHANGED <<chatHistory, settings, guardVars, readSnippets, lastSearchResults,
                       readCache, envVars, calls, nUserOps, cotVars, sums, reads, ops>>

\* after a deepReadUrl: the next url, or summarizeSnippets()
autoReadNext ==
    \E t \in TaskIds :
        LET f == Top(tasks[t].stack) IN
        /\ At(t, "autoReadAndSummarizeFromSuggestion", "awaitDeepRead")
        /\ tasks[t].ret # "none"
        /\ IF tasks[t].ret = "throw"
           THEN /\ autoReadInProgress' = FALSE
                /\ autos' = AutosKept([autos EXCEPT ![f.aid] =
                               With(@, [returned |-> TRUE, raised |-> TRUE])])
                /\ ReturnFrom(t, "throw")
                /\ UNCHANGED ui
           ELSE /\ UNCHANGED autoReadInProgress
                /\ IF f.i < Len(f.urlsToRead)
                   THEN /\ ui' = Show(ui, "spinner")
                        /\ autos' = AutosKept([autos EXCEPT ![f.aid] =
                                       With(@, [deepReads |-> @.deepReads + 1])])
                        /\ CallFrom(t, [f EXCEPT !.i = @ + 1],
                                    DeepReadFrame(f.urlsToRead[f.i + 1], DEEP_MAX_CHUNKS,
                                                  DEEP_CHUNK_SIZE, DEEP_MAX_TOTAL_LENGTH))
                   ELSE /\ UNCHANGED ui
                        /\ autos' = AutosKept([autos EXCEPT ![f.aid] =
                                       With(@, [summaries |-> @.summaries + 1,
                                                readsBeforeSummary |-> f.i])])
                        /\ CallFrom(t, [f EXCEPT !.pc = "awaitSummarize"],
                                    SummarizeFrame(TRUE, <<>>, 1))
        /\ UNCHANGED <<chatHistory, settings, guardVars, readSnippets, lastSearchResults,
                       readCache, envVars, calls, nUserOps, cotVars, sums, reads, ops>>

\* after summarizeSnippets: finally { autoReadInProgress = false }
autoReadDone ==
    \E t \in TaskIds :
        LET f == Top(tasks[t].stack) IN
        /\ At(t, "autoReadAndSummarizeFromSuggestion", "awaitSummarize")
        /\ tasks[t].ret # "none"
        /\ autoReadInProgress' = FALSE
        /\ autos' = AutosKept([autos EXCEPT ![f.aid] =
                       With(@, [returned |-> TRUE, raised |-> tasks[t].ret = "throw"])])
        /\ ReturnFrom(t, tasks[t].ret)
        /\ UNCHANGED <<chatHistory, settings, guardVars, readSnippets, lastSearchResults,
                       readCache, envVars, calls, nUserOps, cotVars, sums, reads, ui, ops>>

-----------------------------------------------------------------------------
Next ==
    \/ init
    \/ updateSettings
    \/ clearChat
    \/ sendMessage
    \/ sendMessageDone
    \/ handleToolCall
    \/ clickReadMore
    \/ clickSummarize
    \/ processToolCall
    \/ processToolCallContinue
    \/ processToolCallDone
    \/ web_search
    \/ read_url
    \/ instant_answer
    \/ web_search_throws
    \/ read_url_throws
    \/ instant_answer_throws
    \/ web_search_returns
    \/ web_search_done
    \/ read_url_returns
    \/ instant_answer_returns
    \/ handleOpenAIMessage
    \/ handleGeminiMessage
    \/ modelRepliesToolCall
    \/ modelRepliesProse
    \/ modelFails
    \/ tokenUsageArrives
    \/ handleMessageDone
    \/ suggestResultsToRead
    \/ suggestionArrives
    \/ suggestionFails
    \/ suggestResultsToReadDone
    \/ autoReadAndSummarizeFromSuggestion
    \/ autoReadNext
    \/ autoReadDone
    \/ callDeepReadUrl
    \/ deepReadUrl
    \/ deepReadUrlFetched
    \/ deepReadUrlJudged
    \/ deepReadUrlJudgeFails
    \/ applySplitIntoBatches
    \/ summarizeSnippets
    \/ summarizeSingleDone
    \/ summarizeSingleFails
    \/ summarizeBatchDone
    \/ summarizeBatchFails
    \/ summarizeRecursionDone

Spec == Init /\ [][Next]_vars

-----------------------------------------------------------------------------
(* Properties of the loop guard *)

\* the i-th invocation starts a run: no invocation of the same call precedes it
\* immediately
StartsRun(i) == i = 1 \/ calls[i - 1].call # calls[i].call

\* invocations i .. i + n - 1 exist and are invocations of one call
SameCalls(i, n) ==
    /\ i + n - 1 \in DOMAIN calls
    /\ \A k \in 1..(n - 1) : calls[i + k].call = calls[i].call

\* C1: when the identical (tool, arguments) call is issued four times in a
\* row, with no different call in between, the first three invocations each
\* run the tool handler and the fourth is aborted without running it.
C1_FourthIdenticalCallAborted ==
    \A i \in DOMAIN calls :
        StartsRun(i) /\ SameCalls(i, 4) =>
            /\ \A k \in 0..2 : ~calls[i + k].aborted /\ calls[i + k].handlerRuns = 1
            /\ calls[i + 3].aborted
            /\ calls[i + 3].handlerRuns = 0

\* four invocations of one call in a row, the fourth aborted
C1_Witness ==
    \E i \in DOMAIN calls :
        /\ StartsRun(i) /\ SameCalls(i, 4)
        /\ calls[i + 3].aborted
        /\ \A k \in 0..2 : calls[i + k].returned

\* C2: the guard compares a call with the immediately preceding call only: a
\* call that differs from the stored one sets the counter to 1 and stores its
\* signature, and as long as no call has been issued more than three times in
\* a row (A,B,A,B,...) no call is aborted.
C2_OnlyImmediateRepetitionCounts ==
    /\ \A i \in DOMAIN calls :
          StartsRun(i) =>
              calls[i].guardAfter =
                  [last |-> [tool |-> calls[i].call.tool, args |-> calls[i].call.arguments],
                   count |-> 1]
    /\ (\A i \in DOMAIN calls : ~SameCalls(i, 4)) =>
          \A i \in DOMAIN calls : ~calls[i].aborted /\ calls[i].loopNotices = 0

\* A,B,A,B: four invocations alternating between two calls, all handled
C2_Witness ==
    /\ Len(calls) >= 4
    /\ calls[1].call # calls[2].call
    /\ calls[3].call = calls[1].call
    /\ calls[4].call = calls[2].call
    /\ \A i \in 1..4 : calls[i].handlerRuns = 1 /\ ~calls[i].aborted
    /\ calls[4].returned

\* C3: when the loop guard aborts a call, the handler is not run, no external
\* tool is invoked, no continuation request is sent to the model, and exactly
\* one loop-detected message is emitted.
C3_AbortedCallDoesNothingElse ==
    \A i \in DOMAIN calls :
        calls[i].guardAfter.count > 3 =>
            /\ calls[i].handlerRuns = 0
            /\ calls[i].toolRuns = 0
            /\ calls[i].contRequests = 0
            /\ calls[i].loopNotices = 1
            /\ calls[i].turns = 0

\* a call issued with skipContinue unset has been aborted and processToolCall
\* has returned
C3_Witness ==
    \E i \in DOMAIN calls :
        /\ calls[i].guardAfter.count > 3
        /\ ~calls[i].skip
        /\ calls[i].loopNotices = 1
        /\ running = 0
        /\ \A t \in TaskIds : tasks[t].stack = <<>>

-----------------------------------------------------------------------------
(* Properties of argument validation *)

\* the arguments fail validation: the query is missing, not a string or blank
\* after trim; the url is missing, not a string or does not start with
\* http:// or https://
FailsValidation(call) ==
    IF call.tool = "read_url"
    THEN call.arguments.url \in {"UNDEF", "NONSTR", "", "ftp://c"}
    ELSE call.arguments.query \in {"UNDEF", "NONSTR", "", " "}

\* C4: a call of web_search, read_url or instant_answer whose arguments fail
\* validation never invokes the external tool.
C4_InvalidCallNeverInvokesTool ==
    \A i \in DOMAIN calls :
        FailsValidation(calls[i].call) => calls[i].toolRuns = 0

\* the handler has run on arguments that fail validation, and has returned
C4_Witness ==
    \E i \in DOMAIN calls :
        /\ FailsValidation(calls[i].call)
        /\ calls[i].handlerRuns = 1
        /\ calls[i].returned

\* C5, as stated: a call that fails validation does not count toward the loop
\* guard: the stored signature and the counter are the same after the call as
\* before it, and repeating it never triggers loop detection.
C5_InvalidCallLeavesGuardAlone ==
    \A i \in DOMAIN calls :
        FailsValidation(calls[i].call) =>
            /\ calls[i].guardAfter = calls[i].guardBefore
            /\ ~calls[i].aborted

\* C5, amended: a call that fails validation counts toward the loop guard
\* like any other call: its signature is stored and the counter is set to 1,
\* or incremented when the stored signature is the same, before the handler
\* validates; the call is aborted when the counter exceeds 3.
C5_InvalidCallCounts ==
    \A i \in DOMAIN calls :
        FailsValidation(calls[i].call) =>
            LET sig == [tool |-> calls[i].call.tool, args |-> calls[i].call.arguments]
                b == calls[i].guardBefore
            IN /\ calls[i].guardAfter.last = sig
               /\ calls[i].guardAfter.count = IF b.last = sig THEN b.count + 1 ELSE 1
               /\ calls[i].aborted <=> calls[i].guardAfter.count > 3

\* the fourth consecutive invocation of a call that fails validation is aborted
C5_Witness ==
    \E i \in DOMAIN calls :
        /\ FailsValidation(calls[i].call)
        /\ calls[i].aborted
        /\ calls[i].guardAfter.count = 4
        /\ calls[i].guardBefore.count = 3

\* a request to the model that continues invocation i is about to be sent
ContinuationPending(i) ==
    \E t \in TaskIds :
        /\ tasks[t].stack # <<>>
        /\ Top(tasks[t].stack).fn \in {"handleOpenAIMessage", "handleGeminiMessage"}
        /\ Top(tasks[t].stack).pc = "start"
        /\ Top(tasks[t].stack).cont = i

\* C6: a call that fails validation emits exactly one error notice and then
\* returns with no retry: no further model request and no further tool call
\* is issued on its behalf.
C6_InvalidCallEndsQuietly ==
    \A i \in DOMAIN calls :
        FailsValidation(calls[i].call) /\ calls[i].returned =>
            /\ calls[i].errorNotices = 1
            /\ calls[i].toolRuns = 0
            /\ calls[i].contRequests = 0
            /\ ~ContinuationPending(i)

\* C7: when the external tool throws, the handler appends exactly one
\* assistant turn '<ToolName> failed: <message>', does not call the tool
\* again, and, when skipContinue is unset, the conversation with that turn is
\* sent to the model again.
C7_ToolFailureIsReportedOnce ==
    \A i \in DOMAIN calls :
        calls[i].threw =>
            LET name == CASE calls[i].call.tool = "web_search" -> "Web search"
                          [] calls[i].call.tool = "read_url" -> "Read URL"
                          [] calls[i].call.tool = "instant_answer" -> "Instant answer"
                failure == [kind |-> "failed", name |-> name]
            IN /\ calls[i].failTurns = 1
               /\ calls[i].turns = 1
               /\ calls[i].otherTurns = 0
               /\ calls[i].toolRuns = 1
               /\ calls[i].returned =>
                      /\ calls[i].lastAtReturn = failure
                      /\ calls[i].skip => calls[i].contRequests = 0
                      /\ ~calls[i].skip =>
                            \/ ContinuationPending(i)
                            \/ calls[i].contRequests = 1 /\ calls[i].contSaw = failure

\* the tool has thrown in a call with skipContinue unset, and the conversation
\* has been sent to the model again
C7_Witness ==
    \E i \in DOMAIN calls :
        /\ calls[i].threw
        /\ ~calls[i].skip
        /\ calls[i].contRequests = 1

\* C8, as stated: a successful execution of a tool handler appends exactly one
\* new assistant turn between the handler's start and its return.
C8_OneTurnPerSuccessfulHandler ==
    \A i \in DOMAIN calls :
        calls[i].succeeded /\ calls[i].returned =>
            calls[i].turns = 1 /\ calls[i].otherTurns = 0

\* the invocations made while the handler of invocation i ran that appended
\* a turn
NestedTurns(i) ==
    { j \in DOMAIN calls : calls[j].parent = i /\ calls[j].turns > 0 }

\* C8, amended: a successful read_url or instant_answer appends exactly one
\* assistant turn between the handler's start and its return; a successful
\* web_search appends its search-results turn and, before it returns, one
\* assistant turn more for every nested read_url call of the automatic
\* reading that fetched, or failed to fetch, a page.
C8_OneTurnPlusNestedReads ==
    \A i \in DOMAIN calls :
        calls[i].succeeded /\ calls[i].returned =>
            /\ calls[i].otherTurns = 0
            /\ \A j \in NestedTurns(i) :
                  calls[j].call.tool = "read_url" /\ calls[j].turns = 1
            /\ calls[i].turns = 1 + Cardinality(NestedTurns(i))
            /\ calls[i].call.tool # "web_search" => NestedTurns(i) = {}

\* a successful web_search has returned after nested reads appended turns
C8_Witness ==
    \E i \in DOMAIN calls :
        /\ calls[i].succeeded /\ calls[i].returned
        /\ calls[i].call.tool = "web_search"
        /\ calls[i].turns >= 3

\* twice the effective start and the effective length of a read_url call: the
\* given start when it is a number >= 0, else 0; the given length when it is
\* a number > 0, else 1122
TwiceStartOf(call) ==
    LET a == call.arguments.start IN
    IF a.t = "num" /\ 2 * a.v + a.half >= 0 THEN 2 * a.v + a.half ELSE 0
TwiceLengthOf(call) ==
    LET a == call.arguments.length IN
    IF a.t = "num" /\ 2 * a.v + a.half > 0 THEN 2 * a.v + a.half ELSE 2 * 1122

\* C9, as stated: for a page of T characters, read_url with effective start s
\* and effective length l produces a slice of min(l, max(0, T - s))
\* characters, and hasMore holds iff s + l < T.
C9_SliceIsMinOfLengthAndRest ==
    \A i \in DOMAIN calls :
        calls[i].call.tool = "read_url" /\ calls[i].succeeded =>
            LET s2 == TwiceStartOf(calls[i].call)
                l2 == TwiceLengthOf(calls[i].call)
                T == calls[i].total
            IN /\ 2 * calls[i].sliceLength = Min(l2, Max(0, 2 * T - s2))
               /\ calls[i].hasMore <=> s2 + l2 < 2 * T

\* C9, amended: the bounds of the slice are truncated to integers: the slice
\* has min(T, floor(s + l)) - min(T, floor(s)) characters, which is
\* min(l, max(0, T - s)) when s and l are integers; hasMore holds iff
\* s + l < T; s = 0, l = 1122 gives 1122 characters and hasMore for T = 1500,
\* and 1000 characters without hasMore for T = 1000.
C9_SliceBoundsAreTruncated ==
    \A i \in DOMAIN calls :
        calls[i].call.tool = "read_url" /\ calls[i].succeeded =>
            LET s2 == TwiceStartOf(calls[i].call)
                l2 == TwiceLengthOf(calls[i].call)
                T == calls[i].total
                whole == s2 % 2 = 0 /\ l2 % 2 = 0
            IN /\ calls[i].sliceLength = Min(T, (s2 + l2) \div 2) - Min(T, s2 \div 2)
               /\ whole => 2 * calls[i].sliceLength = Min(l2, Max(0, 2 * T - s2))
               /\ calls[i].hasMore <=> s2 + l2 < 2 * T
               /\ s2 = 0 /\ l2 = 2 * 1122 /\ T = 1500 =>
                     calls[i].sliceLength = 1122 /\ calls[i].hasMore
               /\ s2 = 0 /\ l2 = 2 * 1122 /\ T = 1000 =>
                     calls[i].sliceLength = 1000 /\ ~calls[i].hasMore

\* a read with length 0.5 has produced an empty slice with hasMore
C9_Witness ==
    \E i \in DOMAIN calls :
        /\ calls[i].call.tool = "read_url" /\ calls[i].succeeded
        /\ calls[i].call.arguments.length = [t |-> "num", v |-> 0, half |-> 1]
        /\ calls[i].call.arguments.start = Num(0)
        /\ calls[i].sliceLength = 0
        /\ calls[i].hasMore

-----------------------------------------------------------------------------
(* Properties of the conversation log *)

\* C10: in every state reachable after init by sendMessage, processToolCall,
\* clearChat and updateSettings, the log holds exactly one system turn, and
\* that turn is its first entry.
C10_OneSystemTurnFirst ==
    /\ chatHistory # <<>>
    /\ chatHistory[1].role = "system"
    /\ Cardinality({ k \in DOMAIN chatHistory : chatHistory[k].role = "system" }) = 1

-----------------------------------------------------------------------------
(* Properties of the continuation *)

\* the content parses as a JSON object that has both tool and arguments
IsToolCallJson(content) ==
    \/ content.kind = "message" /\ content.text = "toolShaped" /\ ~content.cot
    \/ content.kind = "instantAnswer" /\ content.json = "toolShaped"

\* C11: after the handler returns from a call that the loop guard did not
\* abort and that has skipContinue unset, the conversation is sent to the
\* model again exactly once if the content of the most recent turn does not
\* parse as a JSON object with tool and arguments; if it does, no request is
\* made and a warning is emitted instead.
C11_ContinuesUnlessLastTurnIsToolCall ==
    \A i \in DOMAIN calls :
        calls[i].returned /\ ~calls[i].aborted /\ ~calls[i].skip =>
            IF IsToolCallJson(calls[i].lastAtReturn)
            THEN /\ calls[i].contRequests = 0
                 /\ ~ContinuationPending(i)
                 /\ calls[i].warnings = 1
            ELSE /\ calls[i].warnings = 0
                 /\ \/ ContinuationPending(i) /\ calls[i].contRequests = 0
                    \/ ~ContinuationPending(i) /\ calls[i].contRequests = 1

\* a handler has returned with a tool-call JSON as the last turn, and the
\* warning has been emitted
C11_Witness ==
    \E i \in DOMAIN calls :
        /\ calls[i].returned /\ ~calls[i].skip
        /\ calls[i].lastAtReturn = [kind |-> "instantAnswer", json |-> "toolShaped"]
        /\ calls[i].warnings = 1

\* C12: an invocation of processToolCall with skipContinue set never sends
\* the conversation to the model as a continuation, whether the tool
\* succeeded, failed validation or threw; every read_url call of deepReadUrl
\* is made this way, so that no reply of the conversation model is appended
\* while a handler runs a deep read.
C12_SkipContinueSuppressesContinuation ==
    \A i \in DOMAIN calls :
        /\ calls[i].skip =>
              /\ calls[i].contRequests = 0
              /\ calls[i].warnings = 0
              /\ ~ContinuationPending(i)
        /\ calls[i].parent # 0 =>
              /\ calls[i].skip
              /\ calls[i].call.tool = "read_url"
        /\ calls[i].replyTurns = 0

\* a read_url call of a deep read has thrown and returned without continuation
C12_Witness ==
    \E i \in DOMAIN calls :
        /\ calls[i].parent # 0
        /\ calls[i].threw
        /\ calls[i].returned
        /\ \A t \in TaskIds : tasks[t].stack = <<>>

-----------------------------------------------------------------------------
(* Properties of the classification of replies *)

\* the reply has been handled as prose: no tool call was dispatched for it,
\* and exactly one assistant turn holding the full reply was appended
HandledAsProse(e) ==
    /\ ~e.dispatched
    /\ e.call = 0
    /\ e.appended = << [role |-> "assistant",
                        content |-> [kind |-> "reply", text |-> e.reply.text]] >>

\* C13: a reply whose JSON object names a tool other than web_search,
\* read_url and instant_answer is not classified as a tool call: no handler
\* is dispatched, the loop guard and the audit log are unchanged, no error is
\* raised, and the reply is appended as one assistant turn.
C13_UnknownToolIsProse ==
    /\ \A k \in DOMAIN exchanges :
          /\ exchanges[k].kind = "reply"
          /\ exchanges[k].reply.json = "object"
          /\ exchanges[k].reply.call.tool
                \notin {"UNDEF", "web_search", "read_url", "instant_answer"}
          => HandledAsProse(exchanges[k])
    /\ \A i \in DOMAIN calls :
          calls[i].origin = "reply" =>
              /\ calls[i].call.tool \in {"web_search", "read_url", "instant_answer"}
              /\ ~calls[i].raised

\* C14: a reply with no brace-delimited span, or whose span from the first
\* '{' to the last '}' is not JSON, never raises and never dispatches a tool:
\* exactly one assistant turn holding the full reply is appended.
C14_UnparsableReplyIsProse ==
    \A k \in DOMAIN exchanges :
        exchanges[k].kind = "reply" /\ exchanges[k].reply.json \in {"none", "malformed"}
            => HandledAsProse(exchanges[k])

\* a reply with malformed JSON has been appended as a turn
C14_Witness ==
    \E k \in DOMAIN exchanges :
        /\ exchanges[k].kind = "reply"
        /\ exchanges[k].reply.json = "malformed"
        /\ exchanges[k].appended # <<>>
        /\ chatHistory[Len(chatHistory)].content = [kind |-> "reply", text |-> "malformedJson"]

\* the k-th event is a reply that processCoTResponse has classified
Classified(k) ==
    /\ exchanges[k].kind = "reply"
    /\ ~exchanges[k].dispatched
    /\ exchanges[k].cot.stage # "off"

\* ... a reply with both markers
CompleteAt(k) ==
    /\ Classified(k)
    /\ IncludesThinking(exchanges[k].reply.text)
    /\ IncludesAnswer(exchanges[k].reply.text)

\* ... a reply that starts with 'Thinking:' and has no 'Answer:'
PartialAt(k) ==
    /\ Classified(k)
    /\ StartsWithThinking(exchanges[k].reply.text)
    /\ ~IncludesAnswer(exchanges[k].reply.text)

\* the latest complete classification before the k-th event, 0 if none
LastCompleteBefore(k) ==
    LET js == { j \in 1..(k - 1) : CompleteAt(j) } IN
    IF js = {} THEN 0 ELSE CHOOSE j \in js : \A i \in js : i <= j

\* a sendMessage has started between the events j and k
SendBetween(j, k) == \E i \in (j + 1)..(k - 1) : exchanges[i].kind = "send"

\* a complete classification overwrites the stored thinking and answer
CompleteOverwrites ==
    \A k \in DOMAIN exchanges :
        CompleteAt(k) =>
            /\ exchanges[k].after = CotParts(exchanges[k].reply.text).answer
            /\ exchanges[k].thinkingAfter = CotParts(exchanges[k].reply.text).thinking
            /\ exchanges[k].cot.answer = exchanges[k].after
            /\ exchanges[k].cot.thinking = exchanges[k].thinkingAfter

\* C15 as stated: a text that starts with 'Thinking:' and has no 'Answer:'
\* gives a partial result of stage 'thinking' whose answer is the answer
\* stored by the most recent complete classification, not the empty string,
\* and the stored answer is unchanged; a complete classification overwrites
\* the stored thinking and answer.
C15_PartialCarriesLastCompleteAnswer ==
    /\ CompleteOverwrites
    /\ \A k \in DOMAIN exchanges :
          PartialAt(k) =>
              /\ exchanges[k].cot.partial
              /\ exchanges[k].cot.stage = "thinking"
              /\ exchanges[k].after = exchanges[k].before
              /\ LET j == LastCompleteBefore(k) IN
                 j # 0 => /\ exchanges[k].cot.answer = exchanges[j].cot.answer
                          /\ exchanges[k].cot.answer # ""

\* C15 amended: the answer of the partial result is the stored answer, which
\* is the answer of the most recent complete classification only if no
\* sendMessage has started since, and the empty string otherwise (sendMessage
\* resets the stored thinking and answer); the stored answer is unchanged and
\* the stored thinking becomes the partial thinking; a complete
\* classification overwrites both.
C15_PartialCarriesStoredAnswer ==
    /\ CompleteOverwrites
    /\ \A k \in DOMAIN exchanges :
          PartialAt(k) =>
              /\ exchanges[k].cot.partial
              /\ exchanges[k].cot.stage = "thinking"
              /\ exchanges[k].cot.hasStructuredResponse
              /\ exchanges[k].cot.answer = exchanges[k].before
              /\ exchanges[k].after = exchanges[k].before
              /\ exchanges[k].thinkingAfter = CotParts(exchanges[k].reply.text).thinking
              /\ LET j == LastCompleteBefore(k) IN
                 IF j # 0 /\ ~SendBetween(j, k)
                 THEN /\ exchanges[k].cot.answer = exchanges[j].cot.answer
                      /\ exchanges[k].cot.answer # ""
                 ELSE exchanges[k].cot.answer = ""

\* a partial reply has carried the answer of an earlier complete reply
C15_Witness ==
    \E k \in DOMAIN exchanges :
        /\ PartialAt(k)
        /\ LastCompleteBefore(k) # 0
        /\ exchanges[k].cot.answer = "a2"
        /\ lastAnswerContent = "a2"
        /\ lastThinkingContent = "still working"

\* C16 as stated: a text with 'Thinking:' somewhere other than at its start
\* and without 'Answer:' gives a partial result whose thinking is the text
\* after the first 'Thinking:' and whose answer is empty.
C16_LateThinkingIsPartial ==
    \A k \in DOMAIN exchanges :
        /\ Classified(k)
        /\ IncludesThinking(exchanges[k].reply.text)
        /\ ~StartsWithThinking(exchanges[k].reply.text)
        /\ ~IncludesAnswer(exchanges[k].reply.text)
        => /\ exchanges[k].cot.thinking = CotParts(exchanges[k].reply.text).thinking
           /\ exchanges[k].cot.answer = ""
           /\ exchanges[k].cot.partial

-----------------------------------------------------------------------------
(* Properties of summarizeSnippets and splitIntoBatches *)

\* C17: summarizeSnippets on exactly one snippet issues exactly one model
\* request and does not recurse; when it returns the snippet buffer is empty,
\* after a success (at most one summary, no failure notice) and after a
\* failure (one failure notice, no summary).
C17_SingleSnippetOneRequest ==
    \A s \in DOMAIN sums :
        sums[s].count = 1 =>
            /\ sums[s].requests = 1
            /\ ~sums[s].recursed
            /\ sums[s].returned =>
                  /\ sums[s].bufferAtReturn = 0
                  /\ IF sums[s].lengths = <<>>
                     THEN sums[s].failNotices = 1 /\ sums[s].summaryNotices = 0
                     ELSE /\ sums[s].failNotices = 0
                          /\ sums[s].summaryNotices = IF sums[s].lengths[1] > 0 THEN 1 ELSE 0

\* the one snippet of the buffer has been summarized, and the buffer is empty
C17_Witness ==
    \E s \in DOMAIN sums :
        /\ sums[s].count = 1
        /\ sums[s].parent = 0
        /\ sums[s].returned
        /\ sums[s].summaryNotices = 1
        /\ readSnippets = <<>>

RECURSIVE SumOf(_)
SumOf(ns) == IF ns = <<>> THEN 0 ELSE Head(ns) + SumOf(Tail(ns))

\* the length of the summaries of lengths ns joined with '\n---\n'
JoinedLength(ns) == SumOf(ns) + 5 * (Len(ns) - 1)

RECURSIVE Flattened(_)
Flattened(batches) ==
    IF batches = <<>> THEN <<>> ELSE Head(batches) \o Flattened(Tail(batches))

\* the total length of the snippets of a batch
BatchLength(batch) == SumOf([i \in DOMAIN batch |-> batch[i].len])

C19_RecursesIffSummariesExceedBudget ==
    \A s \in DOMAIN sums :
        sums[s].count > 1 =>
            LET e == sums[s]
                children == { d \in DOMAIN sums : sums[d].parent = s }
            IN
            /\ Len(e.lengths) <= e.requests
            /\ e.requests <= Len(e.lengths) + 1
            /\ e.requests <= e.nBatches
            /\ IF Len(e.lengths) = e.nBatches
               THEN /\ e.requests = e.nBatches
                    /\ e.recursed <=> JoinedLength(e.lengths) > 5857
                    /\ ~e.recursed => /\ e.summaryNotices = 1
                                      /\ e.returned
                                      /\ children = {}
                    /\ e.recursed => e.summaryNotices = 0
               ELSE ~e.recursed /\ e.summaryNotices = 0 /\ children = {}
            /\ Cardinality(children) <= 1
            /\ \A d \in children :
                  /\ sums[d].round = e.round + 1
                  /\ sums[d].count = e.nBatches
                  /\ sums[d].run = e.run

\* two batches have been summarized, the summaries were too long, and the
\* next round has summarized them again and shown the final summary
C19_Witness ==
    \E s \in DOMAIN sums, d \in DOMAIN sums :
        /\ sums[s].nBatches = 2
        /\ sums[s].recursed
        /\ sums[s].returned
        /\ sums[d].parent = s
        /\ sums[d].count = 2
        /\ ~sums[d].recursed
        /\ sums[d].summaryNotices = 1

\* C20 as stated: the buffer is not cleared while a deeper round is pending
\* or running, and it is first cleared only after a terminal summary has been
\* shown or a failure has ended the run.
C20_BufferClearedAfterTerminal ==
    \A s \in DOMAIN sums :
        /\ ~sums[s].clearedPending
        /\ ~sums[s].clearedEarly

\* C20 amended: the buffer is not cleared while a deeper round is pending or
\* running: an invocation clears it once, when it returns; and it is first
\* cleared only after a summary or a failure notice of the run has been
\* shown, or after the single-snippet request has returned an empty summary,
\* for which nothing is shown.
C20_BufferNotClearedMidRecursion ==
    \A s \in DOMAIN sums :
        /\ ~sums[s].clearedPending
        /\ sums[s].clears = IF sums[s].returned THEN 1 ELSE 0
        /\ sums[s].clearedEarly =>
              \E d \in DOMAIN sums :
                  /\ sums[d].run = sums[s].run
                  /\ sums[d].count = 1
                  /\ sums[d].lengths = <<0>>
                  /\ sums[d].returned

\* a run of two rounds has ended: each round has cleared the buffer once,
\* the first one after the second had returned
C20_Witness ==
    \E s \in DOMAIN sums, d \in DOMAIN sums :
        /\ sums[s].recursed
        /\ sums[s].clears = 1
        /\ sums[d].parent = s
        /\ sums[d].clears = 1
        /\ sums[d].failNotices + sums[d].summaryNotices = 1
        /\ ~sums[s].clearedEarly
        /\ readSnippets = <<>>

-----------------------------------------------------------------------------
(* Properties of deepReadUrl *)

\* the invocation r has read a page of 10000 characters with the arguments of
\* autoReadAndSummarizeFromSuggestion, the model answered 'yes' every time,
\* and it has returned
AlwaysYesOnLongPage(r) ==
    /\ reads[r].returned
    /\ reads[r].maxChunks = 5
    /\ reads[r].chunkSize = 2000
    /\ reads[r].maxTotalLength = 10000
    /\ reads[r].judgments # <<>>
    /\ \A i \in DOMAIN reads[r].judgments : reads[r].judgments[i] = "yes"
    /\ \A i \in DOMAIN reads[r].fetchedLengths : reads[r].fetchedLengths[i] = 10000
    /\ \A i \in DOMAIN reads[r].retrievals : ~reads[r].retrievals[i].cached

\* C21 as stated: on a 10000-character page with a model that always answers
\* 'yes', deepReadUrl fetches exactly 5 chunks and the loop stops because the
\* chunk count has reached maxChunks, not because the length has reached
\* maxTotalLength.
C21_StopsOnChunkCount ==
    \A r \in DOMAIN reads :
        AlwaysYesOnLongPage(r) =>
            /\ Len(reads[r].retrievals) = 5
            /\ Len(reads[r].chunks) = 5
            /\ reads[r].exit.chunkCount >= reads[r].maxChunks
            /\ reads[r].exit.totalLength < reads[r].maxTotalLength

\* C21 amended: it fetches exactly 5 chunks, and the loop stops because the
\* length read, 10012 with the '...' of the first four chunks, has reached
\* maxTotalLength: the fifth 'yes' is not followed, and chunkCount is 4.
C21_StopsOnTotalLength ==
    \A r \in DOMAIN reads :
        AlwaysYesOnLongPage(r) =>
            /\ Len(reads[r].retrievals) = 5
            /\ Len(reads[r].chunks) = 5
            /\ Len(reads[r].judgments) = 5
            /\ ~reads[r].exit.shouldContinue
            /\ reads[r].exit.chunkCount = 4
            /\ reads[r].exit.totalLength = 10012

\* such a deep read has returned its five chunks
C21_Witness ==
    \E r \in DOMAIN reads :
        /\ AlwaysYesOnLongPage(r)
        /\ Len(reads[r].chunks) = 5
        /\ reads[r].chunks[5] = Text("http://a", 8000, 2000, FALSE)

\* C22: a failed judgment request ends deepReadUrl without an exception: it
\* is the last judgment, no chunk is retrieved after it, and the invocation
\* has returned the chunks read so far, in order, the last one being the
\* chunk fetched just before the request.
C22_JudgeFailureStopsReading ==
    \A r \in DOMAIN reads :
        LET e == reads[r] IN
        (\E i \in DOMAIN e.judgments : e.judgments[i] = "failed") =>
            /\ e.judgments[Len(e.judgments)] = "failed"
            /\ \A i \in 1..(Len(e.judgments) - 1) : e.judgments[i] = "yes"
            /\ \A k \in DOMAIN e.retrievals :
                  \A i \in DOMAIN e.retrievals[k].judgments :
                      e.retrievals[k].judgments[i] # "failed"
            /\ e.returned
            /\ ~e.raised
            /\ e.exit.at = "catch"
            /\ Len(e.retrievals) = Len(e.judgments)
            /\ Len(e.chunks) = Len(e.retrievals)
            /\ \A k \in DOMAIN e.chunks :
                  /\ e.chunks[k].url = e.url
                  /\ e.chunks[k].from = e.retrievals[k].start

\* the second judgment request has failed, and two chunks have been returned
C22_Witness ==
    \E r \in DOMAIN reads :
        /\ reads[r].judgments = <<"yes", "failed">>
        /\ reads[r].returned
        /\ Len(reads[r].chunks) = 2
        /\ \A t \in TaskIds : tasks[t] = IdleTask

\* C27: whatever its arguments and the model's replies, deepReadUrl retrieves
\* (from the cache or by a fetch) at most maxChunks chunks and returns at
\* most maxChunks chunks, and it starts to retrieve a chunk only while the
\* length read so far is below maxTotalLength and, after the first chunk,
\* the judgment of the previous chunk was 'yes'.
C27_DeepReadIsBounded ==
    \A r \in DOMAIN reads :
        LET e == reads[r] IN
        /\ Len(e.retrievals) <= e.maxChunks
        /\ Len(e.chunks) <= e.maxChunks
        /\ Len(e.chunks) <= Len(e.retrievals)
        /\ \A k \in DOMAIN e.retrievals :
              LET item == e.retrievals[k] IN
              /\ item.totalLength < e.maxTotalLength
              /\ item.chunkCount < e.maxChunks
              /\ Len(item.judgments) = k - 1
              /\ k > 1 => item.judgments[k - 1] = "yes"

\* a deep read has returned two chunks after a 'yes' and a 'no', and a later
\* one has taken them from the cache and fetched a third
C27_Witness ==
    /\ Len(reads) = 2
    /\ reads[1].returned
    /\ reads[1].judgments = <<"yes", "no">>
    /\ Len(reads[1].chunks) = 2
    /\ reads[2].returned
    /\ Len(reads[2].retrievals) = 3
    /\ reads[2].retrievals[1].cached
    /\ reads[2].retrievals[2].cached
    /\ ~reads[2].retrievals[3].cached
    /\ Len(reads[2].chunks) <= reads[2].maxChunks

-----------------------------------------------------------------------------
(* Properties of the audit log toolCallHistory *)

\* C26: the audit log is append-only.  No step removes or changes an entry;
\* a step in which a processToolCall passes the loop guard appends exactly
\* one entry, that of its call, before the handler has run; a step in which a
\* processToolCall is aborted by the guard, and every other step, appends
\* none.
C26_AuditLogIsAppendOnly ==
    [][ /\ Len(toolCallHistory') >= Len(toolCallHistory)
        /\ SubSeq(toolCallHistory', 1, Len(toolCallHistory)) = toolCallHistory
        /\ IF Len(calls') = Len(calls) + 1
           THEN LET e == calls'[Len(calls')] IN
                IF e.aborted
                THEN toolCallHistory' = toolCallHistory
                ELSE /\ toolCallHistory' =
                           Append(toolCallHistory,
                                  [tool |-> e.call.tool, args |-> e.call.arguments])
                     /\ e.toolRuns = 0
           ELSE toolCallHistory' = toolCallHistory ]_vars

\* three identical calls are in the log, and the fourth has been aborted
C26_Witness ==
    /\ Len(toolCallHistory) = 3
    /\ Len(calls) = 4
    /\ calls[4].aborted
    /\ \A i \in 1..3 : /\ ~calls[i].aborted
                       /\ toolCallHistory[i].tool = calls[4].call.tool

-----------------------------------------------------------------------------
(* Properties of the rounds of summarizeSnippets *)

\* the invocation d has ended its run: its only snippet has been summarized,
\* or its request has failed, or the summaries of its batches fit the budget
TerminalRound(d) ==
    \/ sums[d].failNotices = 1
    \/ sums[d].count = 1 /\ Len(sums[d].lengths) = 1
    \/ /\ sums[d].count > 1
       /\ Len(sums[d].lengths) = sums[d].nBatches
       /\ JoinedLength(sums[d].lengths) <= 5857

\* C28: the rounds of summarizeSnippets are not capped.  At any round, an
\* invocation with two or more snippets whose batch summaries, joined, exceed
\* the budget calls itself at round + 1 with the summaries and shows no
\* summary; and as long as no round of the run has summarized a single
\* snippet, had a request fail, or got summaries that fit the budget, no
\* invocation of the run has returned, none has shown a summary, and the
\* buffer has not been cleared.
C28_RoundsAreNotCapped ==
    \A s \in DOMAIN sums :
        LET e == sums[s]
            ended == \E d \in DOMAIN sums : sums[d].run = e.run /\ TerminalRound(d)
        IN
        /\ ( /\ e.count > 1
             /\ Len(e.lengths) = e.nBatches
             /\ JoinedLength(e.lengths) > 5857 ) =>
                /\ e.recursed
                /\ e.summaryNotices = 0
                /\ \/ \E d \in DOMAIN sums : /\ sums[d].parent = s
                                             /\ sums[d].round = e.round + 1
                                             /\ sums[d].count = e.nBatches
                   \/ \E t \in TaskIds :
                         /\ At(t, "summarizeSnippets", "start")
                         /\ Top(tasks[t].stack).round = e.round + 1
                         /\ Len(Top(tasks[t].stack).snippets) = e.nBatches
        /\ ~ended =>
                /\ ~e.returned
                /\ e.clears = 0
                /\ e.summaryNotices = 0
                /\ e.parent = 0 => Len(readSnippets) = e.count

\* a run is in its third round: the summaries of the first and of the second
\* round were too long, nothing has been shown, and the buffer is as it was
C28_Witness ==
    \E s \in DOMAIN sums, d \in DOMAIN sums, g \in DOMAIN sums :
        /\ sums[s].round = 1 /\ sums[s].recursed
        /\ sums[d].parent = s /\ sums[d].round = 2 /\ sums[d].recursed
        /\ sums[g].parent = d /\ sums[g].round = 3 /\ sums[g].count > 1
        /\ \A x \in DOMAIN sums : ~sums[x].returned /\ sums[x].summaryNotices = 0
        /\ Len(readSnippets) = sums[s].count
        /\ readSnippets # <<>>

-----------------------------------------------------------------------------
(* Properties of the in-progress indicators *)

\* C25: a handler that has shown its in-progress indicator (the spinner for
\* web_search and read_url, the status line for instant_answer) has cleared
\* it when it returns, whether the tool succeeded or failed, and whatever
\* reads and summaries ran under it.
C25_IndicatorClearedAtReturn ==
    \A i \in DOMAIN calls :
        /\ calls[i].handlerReturned /\ calls[i].indicated => ~calls[i].indicatorAtReturn
        /\ calls[i].toolRuns = 1 <=> calls[i].indicated
        /\ calls[i].returned => calls[i].handlerReturned

\* a web_search has returned after a read_url under it succeeded, another
\* one failed, and what was read was summarized
C25_Witness ==
    \E i \in DOMAIN calls, j \in DOMAIN calls, k \in DOMAIN calls, s \in DOMAIN sums :
        /\ calls[i].call.tool = "web_search"
        /\ calls[i].handlerReturned /\ calls[i].indicated
        /\ calls[j].parent = i /\ calls[j].succeeded /\ calls[j].handlerReturned
        /\ calls[k].parent = i /\ calls[k].threw /\ calls[k].handlerReturned
        /\ sums[s].returned /\ sums[s].summaryNotices = 1
        /\ ~ui.spinner

-----------------------------------------------------------------------------
(* Properties of concurrent chains *)

\* the chains started by sendMessage, by a click on 'read more' or by a click
\* on the summarize button that wait for a request to ToolsService or to the
\* model
InFlight ==
    { t \in TaskIds :
        /\ tasks[t].stack # <<>>
        /\ running # t
        /\ LET first == tasks[t].stack[1] IN
           \/ first.fn = "sendMessage"
           \/ first.fn = "processToolCall" /\ first.origin = "readMore"
           \/ first.fn = "summarizeSnippets" }

\* C24: whatever the interleaving of sendMessage, the 'read more' callback,
\* the summarize callback and their continuations, at most one request to a
\* tool or to the model is in flight.
C24_OneRequestInFlight == Cardinality(InFlight) <= 1

-----------------------------------------------------------------------------
(* Properties of autoReadAndSummarizeFromSuggestion *)

\* C23: autoReadAndSummarizeFromSuggestion is not re-entrant.  An invocation
\* made while another one is in progress returns at once, without a read or a
\* summary; at most one invocation is in progress; an invocation in progress
\* reads its urls one after another and calls summarizeSnippets once, after
\* the last of its deep reads has returned; and autoReadInProgress is true
\* exactly while an invocation is in progress, whether the last one returned
\* normally or by an exception.
C23_AutoReadIsNotReentrant ==
    LET inProgress == { a \in DOMAIN autos : autos[a].started /\ ~autos[a].returned }
        reading == { t \in TaskIds :
                       \E i \in DOMAIN tasks[t].stack :
                           /\ tasks[t].stack[i].fn = "autoReadAndSummarizeFromSuggestion"
                           /\ tasks[t].stack[i].pc # "start" }
    IN
    /\ Cardinality(reading) <= 1
    /\ autoReadInProgress <=> reading # {}
    /\ profile = "overlaps" =>
        /\ Cardinality(inProgress) <= 1
        /\ autoReadInProgress <=> inProgress # {}
        /\ \A a \in DOMAIN autos :
              LET e == autos[a] IN
              /\ e.inProgressAtEntry =>
                    ~e.started /\ e.returned /\ e.deepReads = 0 /\ e.summaries = 0
              /\ e.deepReads <= e.urls
              /\ e.summaries <= 1
              /\ e.summaries = 1 =>
                    e.readsBeforeSummary = e.urls /\ e.deepReads = e.urls
              /\ e.started /\ e.returned /\ ~e.raised => e.summaries = 1

\* an invocation made while another was in progress has returned, and the
\* other one has then summarized what it read and returned
C23_Witness ==
    \E a \in DOMAIN autos, b \in DOMAIN autos :
        /\ autos[a].started /\ autos[a].returned /\ autos[a].summaries = 1
        /\ autos[a].urls = 2 /\ autos[a].deepReads = 2
        /\ autos[b].inProgressAtEntry /\ autos[b].returned
        /\ a < b
        /\ ~autoReadInProgress

-----------------------------------------------------------------------------
(* Properties of repeated searches and of the read cache *)

\* the calls up to i that were not made under a handler
TopLevel(i) == { j \in 1..i : calls[j].parent = 0 }

\* the last four of them
LastFour(i) == { j \in TopLevel(i) : Cardinality({ k \in TopLevel(i) : k >= j }) <= 4 }

\* C29: when the model issues the same web_search in four continuation rounds
\* in a row, the fourth one is aborted by the loop guard, whether or not the
\* searches before it had their results read by nested read_url calls.
C29_FourthSearchAborted ==
    \A i \in DOMAIN calls :
        ( /\ calls[i].parent = 0
          /\ calls[i].call.tool = "web_search"
          /\ Cardinality(LastFour(i)) = 4
          /\ \A j \in LastFour(i) : /\ calls[j].call = calls[i].call
                                    /\ calls[j].origin = "reply"
                                    /\ j # i => ~calls[j].aborted )
        => calls[i].aborted

\* C30: every entry of the read cache holds text of the url and of the
\* offset of its key.
C30_CacheHoldsTextOfItsKey ==
    \A e \in readCache :
        /\ e.snippet.url = e.key.url
        /\ e.snippet.len > 0 => e.snippet.from = e.key.start

-----------------------------------------------------------------------------
(* Properties of the snippet buffer under interleaved reads *)

\* the invocations of summarizeSnippets in progress that took the buffer as
\* their input
BufferRuns ==
    { f \in UNION { { tasks[t].stack[k] : k \in DOMAIN tasks[t].stack } : t \in TaskIds } :
        f.fn = "summarizeSnippets" /\ f.usesBuffer /\ f.pc # "start" }

\* C31: no snippet is dropped unsummarized: in a step that clears a buffer
\* that holds snippets, the buffer is the input of an invocation of
\* summarizeSnippets in progress, whatever read_url calls ran while it waited.
C31_NoSnippetDropped ==
    [][ (readSnippets # <<>> /\ readSnippets' = <<>>)
        => \E f \in BufferRuns : f.snippets = readSnippets ]_vars

-----------------------------------------------------------------------------
(* Properties of the loop guard across messages and resets *)

====
